---- MODULE Spec2Model ----
(***************************************************************************)
(* A model of the MCP Kit local relay.                                     *)
(*                                                                         *)
(* Three builds of the relay are in the repository:                        *)
(*   "scoped"  src/src/index.ts          one target server, plain prompts  *)
(*   "debug"   src/unnamed/part_002      the same startup, file logging,   *)
(*                                       normalising prompt handler        *)
(*   "multi"   src/unnamed/part_001:504  every accessible server           *)
(* The variable build says which one runs.  Startup is main(); after the   *)
(* transport is attached the client invokes registered handlers one at a   *)
(* time.  JavaScript strings are TLA+ strings; other JavaScript values are *)
(* tagged records (see Str, Undefined, ...).                               *)
(***************************************************************************)
EXTENDS Integers, Sequences, FiniteSets, TLC

VARIABLES
  build,                  \* which build of the relay is running
  apiKey,                 \* const apiKey = process.env.MCPKIT_API_KEY
  configFile,             \* what main() found at configPath
  pc,                     \* position of main()
  exitCode,               \* -1 while the process runs, else process.exit's code
  exitCause,              \* which statement ended the process ("" while it runs)
  targetServerId,         \* let targetServerId: string | undefined
  targetServerName,       \* let targetServerName: string | undefined
  serverDefinition,       \* let serverDefinition: RelayServerDefinition | null
  serverDefinitions,      \* multi build: const serverDefinitions
  targetServerResources,  \* let targetServerResources: Resource[]
  serverPrompts,          \* let serverPrompts: PromptDefinition[]
  serverInstance,         \* the McpServer: name, capabilities, registrations
  si,                     \* multi build: index of the server being processed
  ti,                     \* index of the next tool / resource / prompt
  generated,              \* multi build: the "Registering tool ..." log lines
  requests,               \* HTTP requests issued by main(), in order
  call,                   \* the client invocation being handled
  inflight,               \* invocations that are in progress together
  userFriendlyMessage,    \* what main()'s catch block reports ("" if nothing)
  input,                  \* a function applied on its own: its argument
  output                  \* a function applied on its own: its value

vars == <<inflight, build, apiKey, configFile, pc, exitCode, exitCause, targetServerId, targetServerName,
          serverDefinition, serverDefinitions, targetServerResources,
          serverPrompts, serverInstance, si, ti, generated, requests, call,
          userFriendlyMessage, input, output>>

-----------------------------------------------------------------------------
(* Bounds and program constants *)

MaxTools == 2

MaxRawLen == 3

MaxParams == 2

MaxInFlight == 2

MaxIdLen == 64

MaxErrLen == 1000

ServerIdPrefixLen == 8

-----------------------------------------------------------------------------
(* JavaScript values *)

Undefined == [t |-> "undefined"]
Null == [t |-> "null"]
Str(s) == [t |-> "string", v |-> s]
Num(n) == [t |-> "number", v |-> n]
Bool(b) == [t |-> "boolean", v |-> b]

\* ToBoolean on the values the model uses
Truthy(x) ==
  CASE x.t = "undefined" -> FALSE
    [] x.t = "null" -> FALSE
    [] x.t = "string" -> x.v # ""
    [] x.t = "number" -> x.v # 0
    [] x.t = "boolean" -> x.v
    [] OTHER -> TRUE

Min(a, b) == IF a < b THEN a ELSE b

\* String.prototype.substring(0, n)
Substring0(s, n) == SubSeq(s, 1, Min(n, Len(s)))

RECURSIVE Rep(_, _)
Rep(s, n) ==
  IF n = 0 THEN ""
  ELSE IF n % 2 = 0 THEN LET h == Rep(s, n \div 2) IN h \o h
  ELSE s \o Rep(s, n - 1)

Digit(d) == SubSeq("0123456789", d + 1, d + 1)

\* Number-to-string conversion of a template literal, for naturals
RECURSIVE NumToString(_)
NumToString(n) ==
  IF n < 10 THEN Digit(n) ELSE NumToString(n \div 10) \o Digit(n % 10)

-----------------------------------------------------------------------------
(* Identifier sanitizer *)

LegalChars ==
  {"a","b","c","d","e","f","g","h","i","j","k","l","m",
   "n","o","p","q","r","s","t","u","v","w","x","y","z",
   "A","B","C","D","E","F","G","H","I","J","K","L","M",
   "N","O","P","Q","R","S","T","U","V","W","X","Y","Z",
   "0","1","2","3","4","5","6","7","8","9","_","-"}

\* a replacement that drops the illegal characters
RECURSIVE ReplaceIllegal_Drop(_)
ReplaceIllegal_Drop(s) ==
  IF s = "" THEN ""
  ELSE LET c == SubSeq(s, 1, 1)
       IN (IF c \in LegalChars THEN c ELSE "") \o ReplaceIllegal_Drop(Tail(s))

\* name.replace(/[^a-zA-Z0-9_-]/g, "_")
RECURSIVE ReplaceIllegal(_)
ReplaceIllegal(s) ==
  IF s = "" THEN ""
  ELSE LET c == SubSeq(s, 1, 1)
       IN (IF c \in LegalChars THEN c ELSE "_") \o ReplaceIllegal(Tail(s))

\* a sanitizer that only truncates
sanitize_TruncateOnly(name) == Substring0(name, MaxIdLen)

sanitize(name) == Substring0(ReplaceIllegal(name), MaxIdLen)

\* a scoped build that names a tool after its slug
ScopedRegisteredName_FromSlug(toolDef) == sanitize(toolDef.slug)

\* scoped builds: const finalRegisteredName = sanitize(toolDef.name)
ScopedRegisteredName(toolDef) == sanitize(toolDef.name)

\* the multi build's name built from the slug instead of the display name
finalRegisteredName_FromSlug(serverId, toolDef) ==
  Substring0(sanitize(serverId) \o "_" \o sanitize(toolDef.slug), MaxIdLen)

\* the multi build's name with the tool's part left out
finalRegisteredName_ServerOnly(serverId, toolDef) ==
  Substring0(sanitize(serverId) \o "_", MaxIdLen)

\* the multi build's name with a running number of the process in it
finalRegisteredName_Numbered(serverId, toolDef) ==
  Substring0(sanitize(serverId) \o "_" \o NumToString(Len(generated))
               \o sanitize(toolDef.name), MaxIdLen)

\* multi build: `${sanitizedServerId}_${sanitizedToolName}`.substring(0, 64)
finalRegisteredName(serverId, toolDef) ==
  Substring0(sanitize(serverId) \o "_" \o sanitize(toolDef.name), MaxIdLen)

-----------------------------------------------------------------------------
(* Parameter schemas: DbToolParameter[] to { [key: string]: ZodTypeAny }   *)

UpperCaseLetters == "ABCDEFGHIJKLMNOPQRSTUVWXYZ"
LowerCaseLetters == "abcdefghijklmnopqrstuvwxyz"

\* String.prototype.toLowerCase() on ASCII text
RECURSIVE ToLowerCase(_)
ToLowerCase(s) ==
  IF s = "" THEN ""
  ELSE LET c == SubSeq(s, 1, 1)
           at == {i \in 1..Len(UpperCaseLetters) : SubSeq(UpperCaseLetters, i, i) = c}
       IN (IF at = {} THEN c
           ELSE LET i == CHOOSE i \in at : TRUE IN SubSeq(LowerCaseLetters, i, i))
          \o ToLowerCase(Tail(s))

\* a Zod schema: z.string(), z.number(), z.boolean() or z.any(), then
\* .describe(...) and .optional() as applied
ZodSchema(kind, description, optional) ==
  [kind |-> kind, description |-> description, optional |-> optional]

\* a parameter's schema that is never made optional
zodSchema_NeverOptional(param) ==
  ZodSchema("any", Undefined, FALSE)

\* the body of toolDef.parameters.forEach: switch (param.type?.toLowerCase()),
\* then describe(param.description), then optional() if (!param.required)
zodSchema(param) ==
  LET tag == IF param.type.t = "string" THEN ToLowerCase(param.type.v) ELSE "undefined"
      kind == CASE param.type.t = "string" /\ tag = "string" -> "string"
                [] param.type.t = "string" /\ tag = "number" -> "number"
                [] param.type.t = "string" /\ tag = "boolean" -> "boolean"
                [] OTHER -> "any"
  IN ZodSchema(kind,
               IF Truthy(param.description) THEN param.description ELSE Undefined,
               ~Truthy(param.required))

\* parameters[key] = value on an object kept as its list of own properties
SetProperty(props, key, value) ==
  IF \E i \in DOMAIN props : props[i].key = key
  THEN [i \in DOMAIN props |->
          IF props[i].key = key THEN [key |-> key, value |-> value] ELSE props[i]]
  ELSE Append(props, [key |-> key, value |-> value])

RECURSIVE AssignSchemas(_, _)
AssignSchemas(props, params) ==
  IF Len(params) = 0 THEN props
  ELSE AssignSchemas(SetProperty(props, params[1].name, zodSchema(params[1])),
                     Tail(params))

\* the `parameters` object built for one tool: empty unless toolDef.parameters
\* is an array
parameters(toolParameters) ==
  IF toolParameters.t = "array" THEN AssignSchemas(<<>>, toolParameters.items) ELSE <<>>

\* DbToolParameter {name, description, type, required}
DbToolParameter(name, description, type, required) ==
  [name |-> name, description |-> description, type |-> type, required |-> required]

WeatherParameters ==
  [t |-> "array",
   items |-> <<DbToolParameter("city", Str("City name"), Str("string"), Bool(TRUE)),
               DbToolParameter("Unit Of Measure", Null, Str("String"), Bool(FALSE)),
               DbToolParameter("days", Null, Str("integer"), Undefined)>>]

NoParameters == [t |-> "array", items |-> <<>>]

-----------------------------------------------------------------------------
(* What the environment can supply: the credential, the config file and    *)
(* the backend's answers to the discovery requests.                        *)

Builds == {"scoped", "debug", "multi"}

\* MCPKIT_API_KEY: unset, empty, the key the backend issued, or a string that
\* is no key of the backend
ApiKeys == {Undefined, Str(""), Str("secret"), Str("not-a-key")}

ValidApiKey == Str("secret")

ConfigFiles ==
  {[state |-> "missing", targetServerId |-> Undefined],
   [state |-> "malformed", targetServerId |-> Undefined]}
  \cup {[state |-> "ok", targetServerId |-> v] :
          v \in {Undefined, Str(""), Str("YOUR_SERVER_ID_HERE"), Str("srv1")}}

\* before main() has looked at configPath
NotRead == [state |-> "unread", targetServerId |-> Undefined]

LongNameA == Rep("n", MaxIdLen) \o "A"
LongNameB == Rep("n", MaxIdLen) \o "B"

\* RelayToolDefinition {name, slug, parameters}
ToolPool ==
  {[name |-> "Get Weather", slug |-> "get-weather", parameters |-> WeatherParameters],
   [name |-> "Get_Weather", slug |-> "gw2", parameters |-> NoParameters],
   [name |-> "", slug |-> "blank", parameters |-> NoParameters],
   [name |-> LongNameA, slug |-> "long-a", parameters |-> Null],
   [name |-> LongNameB, slug |-> "long-b", parameters |-> NoParameters]}

Range(f) == {f[i] : i \in DOMAIN f}

Distinct(f) == \A i, j \in DOMAIN f : i # j => f[i] # f[j]

SeqsUpTo(S, n) == UNION {[1..k -> S] : k \in 0..n}

\* tool lists the backend returns: slugs are unique within a server
ToolLists ==
  {l \in SeqsUpTo(ToolPool, MaxTools) :
     \A i, j \in DOMAIN l : i # j => l[i].slug # l[j].slug}

\* scoped builds: the body of GET /mcp/servers?serverId=<id>
ScopedDefinitionBodies ==
  {<<>>}
  \cup {<<[id |-> "srv1", name |-> "Weather", tools |-> l]>> : l \in ToolLists}
  \cup {<<[id |-> "srv1", name |-> "", tools |-> l]>> :
          l \in {m \in ToolLists : Len(m) <= 1}}

PingOnly == <<[name |-> "Ping!", slug |-> "ping", parameters |-> NoParameters]>>

PingAnd(l) == <<[name |-> "ping", slug |-> "ping", parameters |-> NoParameters]>> \o l

\* multi build: the body of GET /api/mcp/servers
MultiDefinitionBodies ==
  {<<>>}
  \cup {<<[id |-> "srv1", name |-> "One", tools |-> l]>> : l \in ToolLists}
  \cup {<<[id |-> "s.3", name |-> "Three", tools |-> l]>> : l \in ToolLists}
  \cup {<<[id |-> "", name |-> "NoId", tools |-> PingOnly]>>}
  \cup {<<[id |-> "srv1", name |-> "One", tools |-> PingAnd(l)],
          [id |-> "srv2", name |-> "Two", tools |-> PingOnly]>> :
          l \in {m \in ToolLists : Len(m) < MaxTools}}

\* Resource {name, uri}
ResourceLists ==
  {<<>>,
   <<[name |-> "logo", uri |-> "file:///logo.png"]>>,
   <<[name |-> "logo", uri |-> "file:///logo.png"],
     [name |-> "My Doc", uri |-> "file:///doc"]>>,
   <<[name |-> "logo", uri |-> "file:///logo.png"],
     [name |-> "copy", uri |-> "file:///logo.png"]>>,
   <<[name |-> "shout", uri |-> "FILE:///Doc"]>>}

\* PromptDefinition {name, description}
PromptLists ==
  {<<>>,
   <<[name |-> "Vapi Campaign Creator", description |-> "Creates a campaign"]>>,
   <<[name |-> "summarize", description |-> ""],
     [name |-> "Vapi Campaign Creator", description |-> "Creates a campaign"]>>,
   <<[name |-> "summarize", description |-> ""],
     [name |-> "summarize", description |-> "again"]>>}

\* outcome of one discovery request: a failure, or a 2xx with a body
Failed == [ok |-> FALSE]
Ok(body) == [ok |-> TRUE, body |-> body]

\* how a discovery request sent with `Authorization: Bearer ${apiKey}` can
\* settle: any request can fail, and the backend answers only its own key
Answers(bodies) ==
  {Failed} \cup (IF apiKey = ValidApiKey THEN {Ok(b) : b \in bodies} ELSE {})

-----------------------------------------------------------------------------
(* The process before main(), and the state main() declares *)

NoServer == [created |-> FALSE, name |-> "", connected |-> FALSE,
             capabilities |-> [tools |-> FALSE, resources |-> FALSE, prompts |-> FALSE],
             tools |-> <<>>, resources |-> <<>>, prompts |-> <<>>]

\* no invocation in progress.  An invocation records what the client passed
\* (received), the remote requests issued so far (sent), how the remote call
\* settled (outcome) and what the handler returned or threw (result)
NoCall == [phase |-> "idle", kind |-> "", name |-> "", received |-> Null,
           sent |-> <<>>, outcome |-> Null, result |-> Null]

\* the invocations that can be in progress together
Slots == 1..MaxInFlight

\* the values main()'s variables are declared with
Declared ==
  /\ inflight = [s \in Slots |-> NoCall]
  /\ apiKey = Undefined
  /\ configFile = NotRead
  /\ pc = "start"
  /\ exitCode = -1
  /\ exitCause = ""
  /\ targetServerId = Undefined
  /\ targetServerName = Undefined
  /\ serverDefinition = Null
  /\ serverDefinitions = <<>>
  /\ targetServerResources = <<>>
  /\ serverPrompts = <<>>
  /\ serverInstance = NoServer
  /\ si = 1
  /\ ti = 1
  /\ generated = <<>>
  /\ requests = <<>>
  /\ call = NoCall
  /\ userFriendlyMessage = ""

Init ==
  /\ build \in Builds
  /\ Declared
  /\ input = Null
  /\ output = Null

\* the message main()'s catch block builds for a RangeError whose message
\* includes "Maximum call stack size exceeded"
StackSizeRemedy ==
  "Fatal Error: Maximum call stack size exceeded. \n"
    \o "This likely occurred while handling a large resource (e.g., image blob). \n"
    \o "Try restarting the relay with an increased stack size using the --stack-size flag. \n"
    \o "Example: node --stack-size=32768 dist/index.js \n"
    \o "(See comments in src/index.ts for more details.)"

\* what is thrown at each place of main() that can end the process
ThrownAt(cause) ==
  CASE cause = "stack_overflow" ->
         [class |-> "RangeError", axios |-> FALSE,
          message |-> "Maximum call stack size exceeded"]
    [] cause \in {"fetch_definitions", "fetch_resources"} ->
         [class |-> "Error", axios |-> TRUE, message |-> "Network Error"]
    [] cause = "tool_registration" ->
         [class |-> "Error", axios |-> FALSE, message |-> "Tool is already registered"]
    [] OTHER ->
         [class |-> "Error", axios |-> FALSE, message |-> "Connection closed"]

\* the userFriendlyMessage of main()'s catch block (no response came with the
\* axios errors of the model); the multi build's catch block has no branch for
\* a RangeError
FatalMessage(error) ==
  IF error.class = "RangeError" /\ build # "multi"
  THEN StackSizeRemedy
  ELSE IF error.axios
  THEN "Fatal error initializing MCP Local Relay:"
         \o " Failed to connect or process definitions from the central server."
         \o " Ensure the central server is running and API key is valid. Error: "
         \o error.message
  ELSE "Fatal error initializing MCP Local Relay: " \o error.message

\* process.exit(1) reached from `cause`: the credential check, or main()'s
\* catch block after it has reported userFriendlyMessage
Exit(cause) ==
  /\ pc' = "exited"
  /\ exitCode' = 1
  /\ exitCause' = cause
  /\ userFriendlyMessage' =
       IF cause = "api_key" THEN "" ELSE FatalMessage(ThrownAt(cause))

startupState == <<targetServerId, targetServerName, serverDefinition,
                  serverDefinitions, targetServerResources, serverPrompts,
                  serverInstance, si, ti, generated, requests, call>>

\* a relay that starts whatever the credential is
CheckApiKey_Lenient ==
  /\ pc = "start"
  /\ \E key \in ApiKeys :
       /\ apiKey' = key
       /\ pc' = IF build = "multi" THEN "fetch_defs" ELSE "config"
  /\ UNCHANGED <<input, output, inflight, build, configFile, exitCode, exitCause,
                 userFriendlyMessage, startupState>>

\* const apiKey = process.env.MCPKIT_API_KEY; if (!apiKey) process.exit(1)
CheckApiKey ==
  /\ pc = "start"
  /\ \E key \in ApiKeys :
       /\ apiKey' = key
       /\ IF ~Truthy(key)
          THEN Exit("api_key")
          ELSE /\ pc' = IF build = "multi" THEN "fetch_defs" ELSE "config"
               /\ UNCHANGED <<exitCode, exitCause, userFriendlyMessage>>
  /\ UNCHANGED <<input, output, inflight, build, configFile, startupState>>

\* a configuration block without the placeholder test
ConfiguredTarget_KeepsPlaceholder(file) ==
  IF file.state = "ok" THEN file.targetServerId ELSE Undefined

\* the value targetServerId has after the "Read Configuration" block
ConfiguredTarget(file) ==
  IF file.state = "ok"
  THEN IF file.targetServerId = Str("YOUR_SERVER_ID_HERE")
       THEN Undefined
       ELSE file.targetServerId
  ELSE Undefined

ReadConfiguration ==
  /\ pc = "config"
  /\ \E file \in ConfigFiles :
       /\ configFile' = file
       /\ targetServerId' = ConfiguredTarget(file)
  /\ pc' = "fetch_defs"
  /\ UNCHANGED <<input, output, inflight, build, apiKey, exitCode, exitCause, userFriendlyMessage, targetServerName, serverDefinition,
                 serverDefinitions, targetServerResources, serverPrompts,
                 serverInstance, si, ti, generated, requests, call>>

-----------------------------------------------------------------------------
(* Discovery: the scoped builds *)

\* a discovery request as main() issues it, with whether it succeeded
Get(path, serverId, ok) ==
  [method |-> "GET", path |-> path, serverId |-> serverId, ok |-> ok]
Post(path, serverId, ok) ==
  [method |-> "POST", path |-> path, serverId |-> serverId, ok |-> ok]

\* axios.get(`.../mcp/servers?serverId=${targetServerId}`) and its try/catch
FetchServerDefinition ==
  /\ pc = "fetch_defs"
  /\ build # "multi"
  /\ IF Truthy(targetServerId)
     THEN /\ \E resp \in Answers(ScopedDefinitionBodies) :
               /\ requests' = Append(requests,
                                     Get("/mcp/servers", targetServerId, resp.ok))
               /\ IF resp.ok /\ Len(resp.body) > 0
                  THEN /\ serverDefinition' = resp.body[1]
                       /\ targetServerName' = Str(resp.body[1].name)
                       /\ UNCHANGED targetServerId
                  ELSE /\ targetServerId' = Undefined
                       /\ UNCHANGED <<serverDefinition, targetServerName>>
          /\ pc' = "fetch_resources"
     ELSE /\ pc' = "construct"
          /\ UNCHANGED <<requests, serverDefinition, targetServerName, targetServerId>>
  /\ UNCHANGED <<input, output, inflight, build, apiKey, configFile, exitCode, exitCause, userFriendlyMessage, serverDefinitions,
                 targetServerResources, serverPrompts, serverInstance, si, ti,
                 generated, call>>

\* a resources-list fetch whose failure reaches main()'s catch block
FetchResourcesList_Fatal ==
  /\ pc = "fetch_resources"
  /\ IF Truthy(targetServerId)
     THEN \E resp \in Answers(ResourceLists) :
            /\ requests' = Append(requests,
                                  Get("/mcp/resources/list", targetServerId, resp.ok))
            /\ IF resp.ok
               THEN /\ targetServerResources' = resp.body
                    /\ pc' = "fetch_prompts"
                    /\ UNCHANGED <<exitCode, exitCause, userFriendlyMessage>>
               ELSE /\ Exit("fetch_resources")
                    /\ UNCHANGED targetServerResources
     ELSE /\ pc' = "fetch_prompts"
          /\ UNCHANGED <<requests, targetServerResources, exitCode, exitCause, userFriendlyMessage>>
  /\ UNCHANGED <<input, output, inflight, build, apiKey, configFile, targetServerId, targetServerName,
                 serverDefinition, serverDefinitions, serverPrompts,
                 serverInstance, si, ti, generated, call>>

\* axios.get(`.../mcp/resources/list?serverId=...`), failure only logged
FetchResourcesList ==
  /\ pc = "fetch_resources"
  /\ IF Truthy(targetServerId)
     THEN \E resp \in Answers(ResourceLists) :
            /\ requests' = Append(requests,
                                  Get("/mcp/resources/list", targetServerId, resp.ok))
            /\ targetServerResources' =
                 IF resp.ok THEN resp.body ELSE targetServerResources
     ELSE UNCHANGED <<requests, targetServerResources>>
  /\ pc' = "fetch_prompts"
  /\ UNCHANGED <<input, output, inflight, build, apiKey, configFile, exitCode, exitCause, userFriendlyMessage, targetServerId, targetServerName,
                 serverDefinition, serverDefinitions, serverPrompts,
                 serverInstance, si, ti, generated, call>>

\* a prompts-list fetch whose failure clears the target, as the definition
\* fetch does
FetchPromptsList_ClearsTarget ==
  /\ pc = "fetch_prompts"
  /\ IF Truthy(targetServerId)
     THEN \E resp \in Answers(PromptLists) :
            /\ requests' = Append(requests,
                                  Post("/mcp/prompts/list", targetServerId, resp.ok))
            /\ serverPrompts' = IF resp.ok THEN resp.body ELSE serverPrompts
            /\ targetServerId' = IF resp.ok THEN targetServerId ELSE Undefined
     ELSE UNCHANGED <<requests, serverPrompts, targetServerId>>
  /\ pc' = "construct"
  /\ UNCHANGED <<input, output, inflight, build, apiKey, configFile, exitCode,
                 exitCause, userFriendlyMessage, targetServerName,
                 serverDefinition, serverDefinitions, targetServerResources,
                 serverInstance, si, ti, generated, call>>

\* axios.post(`.../mcp/prompts/list?serverId=...`, {}), failure only logged
FetchPromptsList ==
  /\ pc = "fetch_prompts"
  /\ IF Truthy(targetServerId)
     THEN \E resp \in Answers(PromptLists) :
            /\ requests' = Append(requests,
                                  Post("/mcp/prompts/list", targetServerId, resp.ok))
            /\ serverPrompts' = IF resp.ok THEN resp.body ELSE serverPrompts
     ELSE UNCHANGED <<requests, serverPrompts>>
  /\ pc' = "construct"
  /\ UNCHANGED <<input, output, inflight, build, apiKey, configFile, exitCode, exitCause, userFriendlyMessage, targetServerId, targetServerName,
                 serverDefinition, serverDefinitions, targetServerResources,
                 serverInstance, si, ti, generated, call>>

\* a multi build that goes on with no definitions when the fetch fails
FetchAllDefinitions_Swallow ==
  /\ pc = "fetch_defs"
  /\ build = "multi"
  /\ \E resp \in Answers(MultiDefinitionBodies) :
       /\ requests' = Append(requests, Get("/api/mcp/servers", Undefined, resp.ok))
       /\ serverDefinitions' = IF resp.ok THEN resp.body ELSE <<>>
  /\ pc' = "construct"
  /\ UNCHANGED <<input, output, inflight, build, apiKey, configFile, exitCode, exitCause, userFriendlyMessage, targetServerId, targetServerName,
                 serverDefinition, targetServerResources, serverPrompts,
                 serverInstance, si, ti, generated, call>>

(* Discovery: the multi build.  A failed request is caught by main()'s     *)
(* catch block, which ends the process.                                    *)
FetchAllDefinitions ==
  /\ pc = "fetch_defs"
  /\ build = "multi"
  /\ \E resp \in Answers(MultiDefinitionBodies) :
       /\ requests' = Append(requests, Get("/api/mcp/servers", Undefined, resp.ok))
       /\ IF resp.ok
          THEN /\ serverDefinitions' = resp.body
               /\ pc' = "construct"
               /\ UNCHANGED <<exitCode, exitCause, userFriendlyMessage>>
          ELSE /\ Exit("fetch_definitions")
               /\ UNCHANGED serverDefinitions
  /\ UNCHANGED <<input, output, inflight, build, apiKey, configFile, targetServerId, targetServerName, serverDefinition,
                 targetServerResources, serverPrompts, serverInstance, si, ti,
                 generated, call>>

-----------------------------------------------------------------------------
(* new McpServer({name, version, capabilities}) *)

relayServerName == "MCP Kit Relay"

serverDisplayName ==
  IF Truthy(targetServerId)
  THEN IF Truthy(targetServerName)
       THEN targetServerName.v
       ELSE "Relay for " \o Substring0(targetServerId.v, ServerIdPrefixLen) \o "..."
  ELSE relayServerName

\* serverDefinition?.tools && serverDefinition.tools.length > 0
HasTools == serverDefinition # Null /\ Len(serverDefinition.tools) > 0

\* the capabilities object handed to the McpServer constructor
DeclaredCapabilities ==
  IF build = "multi"
  THEN [tools |-> FALSE, resources |-> FALSE, prompts |-> FALSE]
  ELSE [tools |-> HasTools,
        resources |-> Len(targetServerResources) > 0,
        prompts |-> Len(serverPrompts) > 0]

CreateServer ==
  /\ pc = "construct"
  /\ serverInstance' =
       [NoServer EXCEPT !.created = TRUE,
                        !.name = IF build = "multi" THEN relayServerName
                                 ELSE serverDisplayName,
                        !.capabilities = DeclaredCapabilities]
  /\ pc' = "reg_tools"
  /\ si' = 1
  /\ ti' = 1
  /\ UNCHANGED <<input, output, inflight, build, apiKey, configFile, exitCode, exitCause, userFriendlyMessage, targetServerId, targetServerName,
                 serverDefinition, serverDefinitions, targetServerResources,
                 serverPrompts, generated, requests, call>>

-----------------------------------------------------------------------------
(* Registration.  serverInstance.tool / .resource / .prompt of the SDK     *)
(* throw when the key (tool name, resource URI, prompt name) is already    *)
(* registered; the relay relies on that and adds no check of its own.      *)

ToolNames(srv) == {srv.tools[i].name : i \in DOMAIN srv.tools}
ResourceUris(srv) == {srv.resources[i].uri : i \in DOMAIN srv.resources}
PromptNames(srv) == {srv.prompts[i].name : i \in DOMAIN srv.prompts}

\* the binding made by
\* serverInstance.tool(finalRegisteredName, description, parameters, handler):
\* the handler closes over toolSlugToForward and, in the multi build, serverId;
\* in the scoped builds it reads the variable targetServerId when it runs
ToolBinding(name, toolDef, serverId) ==
  [name |-> name, slug |-> toolDef.slug, toolName |-> toolDef.name,
   serverId |-> serverId, parameters |-> parameters(toolDef.parameters)]

\* scoped builds: one iteration of `for (const toolDef of serverDefinition.tools)`
RegisterTool ==
  /\ pc = "reg_tools"
  /\ build # "multi"
  /\ HasTools
  /\ ti <= Len(serverDefinition.tools)
  /\ LET toolDef == serverDefinition.tools[ti]
         name == ScopedRegisteredName(toolDef)
     IN IF name = ""
        THEN /\ ti' = ti + 1
             /\ UNCHANGED <<pc, exitCode, exitCause, userFriendlyMessage, serverInstance>>
        ELSE IF name \in ToolNames(serverInstance)
        THEN /\ Exit("tool_registration")
             /\ UNCHANGED <<ti, serverInstance>>
        ELSE /\ serverInstance' =
                  [serverInstance EXCEPT
                     !.tools = Append(@, ToolBinding(name, toolDef, Undefined))]
             /\ ti' = ti + 1
             /\ UNCHANGED <<pc, exitCode, exitCause, userFriendlyMessage>>
  /\ UNCHANGED <<input, output, inflight, build, apiKey, configFile, targetServerId, targetServerName, serverDefinition,
                 serverDefinitions, targetServerResources, serverPrompts, si,
                 generated, requests, call>>

\* a relay that serves as soon as the tools are registered
ToolsRegistered_ThenServe ==
  /\ pc = "reg_tools"
  /\ build # "multi"
  /\ IF HasTools THEN ti > Len(serverDefinition.tools) ELSE TRUE
  /\ pc' = "serving"
  /\ ti' = 1
  /\ UNCHANGED <<input, output, inflight, build, apiKey, configFile, exitCode, exitCause, userFriendlyMessage,
                 targetServerId, targetServerName, serverDefinition,
                 serverDefinitions, targetServerResources, serverPrompts,
                 serverInstance, si, generated, requests, call>>

\* scoped builds: the tool loop is over, or was never entered
ToolsRegistered ==
  /\ pc = "reg_tools"
  /\ build # "multi"
  /\ IF HasTools THEN ti > Len(serverDefinition.tools) ELSE TRUE
  /\ pc' = "reg_resources"
  /\ ti' = 1
  /\ UNCHANGED <<input, output, inflight, build, apiKey, configFile, exitCode, exitCause, userFriendlyMessage, targetServerId, targetServerName,
                 serverDefinition, serverDefinitions, targetServerResources,
                 serverPrompts, serverInstance, si, generated, requests, call>>

\* multi build: one iteration of the inner loop over serverDef.tools
RegisterServerTool ==
  /\ pc = "reg_tools"
  /\ build = "multi"
  /\ si <= Len(serverDefinitions)
  /\ ti <= Len(serverDefinitions[si].tools)
  /\ LET serverId == serverDefinitions[si].id
         toolDef == serverDefinitions[si].tools[ti]
         name == finalRegisteredName(serverId, toolDef)
     IN IF sanitize(serverId) = "" \/ sanitize(toolDef.name) = ""
        THEN /\ ti' = ti + 1
             /\ UNCHANGED <<pc, exitCode, exitCause, userFriendlyMessage, serverInstance, generated>>
        ELSE /\ generated' = Append(generated,
                  [name |-> name, slug |-> toolDef.slug, serverId |-> serverId])
             /\ IF name \in ToolNames(serverInstance)
                THEN /\ Exit("tool_registration")
                     /\ UNCHANGED <<ti, serverInstance>>
                ELSE /\ serverInstance' =
                          [serverInstance EXCEPT
                             !.tools = Append(@, ToolBinding(name, toolDef, Str(serverId)))]
                     /\ ti' = ti + 1
                     /\ UNCHANGED <<pc, exitCode, exitCause, userFriendlyMessage>>
  /\ UNCHANGED <<input, output, inflight, build, apiKey, configFile, targetServerId, targetServerName, serverDefinition,
                 serverDefinitions, targetServerResources, serverPrompts, si,
                 requests, call>>

\* multi build: the inner loop is over; next server, or on to the transport
NextServer ==
  /\ pc = "reg_tools"
  /\ build = "multi"
  /\ IF si <= Len(serverDefinitions)
     THEN /\ ti > Len(serverDefinitions[si].tools)
          /\ si' = si + 1
          /\ ti' = 1
          /\ UNCHANGED pc
     ELSE /\ pc' = "connect"
          /\ UNCHANGED <<si, ti>>
  /\ UNCHANGED <<input, output, inflight, build, apiKey, configFile, exitCode, exitCause, userFriendlyMessage, targetServerId, targetServerName,
                 serverDefinition, serverDefinitions, targetServerResources,
                 serverPrompts, serverInstance, generated, requests, call>>

\* a resource loop without the enclosing try/catch: a throw reaches main()'s
\* catch block
RegisterResource_Fatal ==
  /\ pc = "reg_resources"
  /\ ti <= Len(targetServerResources)
  /\ LET resource == targetServerResources[ti]
     IN IF resource.uri \in ResourceUris(serverInstance)
        THEN /\ Exit("resource_registration")
             /\ UNCHANGED <<ti, serverInstance>>
        ELSE /\ serverInstance' =
                  [serverInstance EXCEPT
                     !.resources = Append(@, [name |-> resource.name,
                                              uri |-> resource.uri])]
             /\ ti' = ti + 1
             /\ UNCHANGED <<pc, exitCode, exitCause, userFriendlyMessage>>
  /\ UNCHANGED <<input, output, inflight, build, apiKey, configFile,
                 targetServerId, targetServerName, serverDefinition,
                 serverDefinitions, targetServerResources, serverPrompts, si,
                 generated, requests, call>>

\* one iteration of `for (const resource of targetServerResources)`; a throw
\* leaves the loop through the enclosing try/catch, which only logs
RegisterResource ==
  /\ pc = "reg_resources"
  /\ ti <= Len(targetServerResources)
  /\ LET resource == targetServerResources[ti]
     IN IF resource.uri \in ResourceUris(serverInstance)
        THEN /\ pc' = "reg_prompts"
             /\ ti' = 1
             /\ UNCHANGED serverInstance
        ELSE /\ serverInstance' =
                  [serverInstance EXCEPT
                     !.resources = Append(@, [name |-> resource.name,
                                              uri |-> resource.uri])]
             /\ ti' = ti + 1
             /\ UNCHANGED pc
  /\ UNCHANGED <<input, output, inflight, build, apiKey, configFile, exitCode, exitCause, userFriendlyMessage, targetServerId, targetServerName,
                 serverDefinition, serverDefinitions, targetServerResources,
                 serverPrompts, si, generated, requests, call>>

ResourcesRegistered ==
  /\ pc = "reg_resources"
  /\ ti > Len(targetServerResources)
  /\ pc' = "reg_prompts"
  /\ ti' = 1
  /\ UNCHANGED <<input, output, inflight, build, apiKey, configFile, exitCode, exitCause, userFriendlyMessage, targetServerId, targetServerName,
                 serverDefinition, serverDefinitions, targetServerResources,
                 serverPrompts, serverInstance, si, generated, requests, call>>

\* if (serverPrompts.length > 0 && targetServerId)
PromptsToRegister == Len(serverPrompts) > 0 /\ Truthy(targetServerId)

\* one iteration of `for (const promptDef of serverPrompts)`
RegisterPrompt ==
  /\ pc = "reg_prompts"
  /\ PromptsToRegister
  /\ ti <= Len(serverPrompts)
  /\ LET promptDef == serverPrompts[ti]
     IN IF promptDef.name \in PromptNames(serverInstance)
        THEN /\ pc' = "connect"
             /\ UNCHANGED <<ti, serverInstance>>
        ELSE /\ serverInstance' =
                  [serverInstance EXCEPT
                     !.prompts = Append(@, [name |-> promptDef.name,
                                            description |-> promptDef.description])]
             /\ ti' = ti + 1
             /\ UNCHANGED pc
  /\ UNCHANGED <<input, output, inflight, build, apiKey, configFile, exitCode, exitCause, userFriendlyMessage, targetServerId, targetServerName,
                 serverDefinition, serverDefinitions, targetServerResources,
                 serverPrompts, si, generated, requests, call>>

PromptsRegistered ==
  /\ pc = "reg_prompts"
  /\ IF PromptsToRegister THEN ti > Len(serverPrompts) ELSE TRUE
  /\ pc' = "connect"
  /\ UNCHANGED <<input, output, inflight, build, apiKey, configFile, exitCode, exitCause, userFriendlyMessage, targetServerId, targetServerName,
                 serverDefinition, serverDefinitions, targetServerResources,
                 serverPrompts, serverInstance, si, ti, generated, requests, call>>

\* await serverInstance.connect(new StdioServerTransport()); what it throws (an
\* Error, or a RangeError when the stack is exhausted) is caught by main()'s
\* catch block, which ends the process
Connect ==
  /\ pc = "connect"
  /\ \E settled \in {"connected", "connect", "stack_overflow"} :
       IF settled = "connected"
       THEN /\ serverInstance' = [serverInstance EXCEPT !.connected = TRUE]
            /\ pc' = "serving"
            /\ UNCHANGED <<exitCode, exitCause, userFriendlyMessage>>
       ELSE /\ Exit(settled)
            /\ UNCHANGED serverInstance
  /\ UNCHANGED <<input, output, inflight, build, apiKey, configFile, targetServerId, targetServerName, serverDefinition,
                 serverDefinitions, targetServerResources, serverPrompts, si, ti,
                 generated, requests, call>>

Startup ==
  \/ CheckApiKey
  \/ ReadConfiguration
  \/ FetchServerDefinition
  \/ FetchResourcesList
  \/ FetchPromptsList
  \/ FetchAllDefinitions
  \/ CreateServer
  \/ RegisterTool
  \/ ToolsRegistered
  \/ RegisterServerTool
  \/ NextServer
  \/ RegisterResource
  \/ ResourcesRegistered
  \/ RegisterPrompt
  \/ PromptsRegistered
  \/ Connect

-----------------------------------------------------------------------------
(* Tool invocation: forwardToolCall *)

ExecuteTimeoutMs == 30000

LongText == Rep("x", MaxErrLen) \o "END"

\* a JSON object body {error?, details?} of an error response
ErrorObject(error, details) == [t |-> "object", error |-> error, details |-> details]

\* a 2xx body {result?, isError?}
ExecuteBody(result, isError) == [t |-> "object", result |-> result, isError |-> isError]

\* what can come back from axios.post(executeUrl, parameters, {timeout: 30000})
ExecuteOutcomes ==
  {[kind |-> "ok", body |-> b] :
     b \in {ExecuteBody(Str("X"), Bool(FALSE)),
            ExecuteBody(Str("X"), Bool(TRUE)),
            ExecuteBody(Str("X"), Undefined),
            ExecuteBody(Str(""), Null),
            ExecuteBody(Str(LongText), Bool(FALSE)),
            ExecuteBody(Num(42), Bool(FALSE)),
            ExecuteBody(Undefined, Undefined),
            ExecuteBody(Null, Bool(TRUE)),
            Null, Str("X")}}
  \cup {[kind |-> "http_error", status |-> st, data |-> d] :
          st \in {404, 500},
          d \in {ErrorObject(Str("boom"), Undefined),
                 ErrorObject(Undefined, Str("bad input")),
                 ErrorObject(Str(""), Undefined),
                 ErrorObject(Str(LongText), Undefined),
                 Str("Not Found"), Str("")}}
  \cup {[kind |-> "no_response"]}
  \cup {[kind |-> "setup_error", message |-> Str("Invalid URL")]}
  \cup {[kind |-> "non_axios", message |-> m] : m \in {Str("boom"), Undefined}}

\* `${v}` for the values that reach a template literal here
TemplateString(v) ==
  CASE v.t = "string" -> v.v
    [] v.t = "number" -> NumToString(v.v)
    [] v.t = "undefined" -> "undefined"
    [] v.t = "null" -> "null"
    [] v.t = "boolean" -> IF v.v THEN "true" ELSE "false"
    [] OTHER -> "[object Object]"

Quoted(s) == "\"" \o s \o "\""

\* JSON.stringify(error.response.data) for a string or an {error?, details?}
\* object whose members are strings free of characters that need escaping
JSONStringifyErrorData(d) ==
  IF d.t = "string" THEN Quoted(d.v)
  ELSE LET e == IF d.error.t = "string"
                THEN <<Quoted("error") \o ":" \o Quoted(d.error.v)>> ELSE <<>>
           f == IF d.details.t = "string"
                THEN <<Quoted("details") \o ":" \o Quoted(d.details.v)>> ELSE <<>>
           m == e \o f
       IN "{" \o (IF Len(m) = 0 THEN ""
                  ELSE IF Len(m) = 1 THEN m[1]
                  ELSE m[1] \o "," \o m[2]) \o "}"

\* data?.error || data?.details || JSON.stringify(data)
ErrorDetail(d) ==
  LET e == IF d.t = "object" THEN d.error ELSE Undefined
      f == IF d.t = "object" THEN d.details ELSE Undefined
  IN IF Truthy(e) THEN TemplateString(e)
     ELSE IF Truthy(f) THEN TemplateString(f)
     ELSE JSONStringifyErrorData(d)

TextItem(text) == [type |-> "text", text |-> text]

Returned(value) == [how |-> "return", value |-> value]
Thrown(message) == [how |-> "throw", value |-> message]

\* an error text that is not cut
ToolErrorText_Uncut(toolSlug, outcome) ==
  "Error executing tool '" \o toolSlug \o "'. "
    \o (IF outcome.kind = "http_error" THEN "Server Error: " \o ErrorDetail(outcome.data)
        ELSE "Relay failed to communicate with the execution server.")

\* the catch branch of forwardToolCall
ToolErrorText(toolSlug, outcome) ==
  LET errorMessage ==
        IF outcome.kind = "http_error"
        THEN "Error executing tool '" \o toolSlug \o "' (Status: "
               \o NumToString(outcome.status) \o ")."
        ELSE "Error executing tool '" \o toolSlug \o "'."
      detailText ==
        CASE outcome.kind = "http_error" ->
               "Server Error: " \o ErrorDetail(outcome.data)
          [] outcome.kind = "no_response" ->
               "No response received from the execution server (timeout or network issue)."
          [] outcome.kind = "setup_error" ->
               "Axios error: " \o TemplateString(outcome.message)
          [] OTHER -> TemplateString(outcome.message)
  IN Substring0(errorMessage \o " " \o detailText, MaxErrLen)

\* response.data && typeof response.data.result === "string"
HasStringResult(body) ==
  /\ body.t = "object"
  /\ body.result.t = "string"

\* response.data.isError ?? false
IsErrorOrFalse(body) ==
  IF body.isError.t \in {"undefined", "null"} THEN Bool(FALSE) ELSE body.isError

\* forwardToolCall with a catch branch that rethrows what is not an axios error
forwardToolCall_Rethrow(toolSlug, outcome) ==
  IF outcome.kind = "ok"
  THEN IF HasStringResult(outcome.body)
       THEN Returned([content |-> <<TextItem(outcome.body.result.v)>>,
                      isError |-> IsErrorOrFalse(outcome.body)])
       ELSE Returned([content |->
                        <<TextItem("Error: Invalid response format from tool execution server.")>>,
                      isError |-> Bool(TRUE)])
  ELSE IF outcome.kind = "non_axios"
  THEN Thrown(TemplateString(outcome.message))
  ELSE Returned([content |-> <<TextItem(ToolErrorText(toolSlug, outcome))>>,
                 isError |-> Bool(TRUE)])

\* forwardToolCall that cuts the remote result like an error text
forwardToolCall_Truncating(toolSlug, outcome) ==
  IF outcome.kind = "ok"
  THEN IF HasStringResult(outcome.body)
       THEN Returned([content |-> <<TextItem(Substring0(outcome.body.result.v, MaxErrLen))>>,
                      isError |-> IsErrorOrFalse(outcome.body)])
       ELSE Returned([content |->
                        <<TextItem("Error: Invalid response format from tool execution server.")>>,
                      isError |-> Bool(TRUE)])
  ELSE Returned([content |-> <<TextItem(ToolErrorText(toolSlug, outcome))>>,
                 isError |-> Bool(TRUE)])

\* forwardToolCall, from the outcome of its one axios.post to its completion
forwardToolCall(toolSlug, outcome) ==
  IF outcome.kind = "ok"
  THEN IF HasStringResult(outcome.body)
       THEN Returned([content |-> <<TextItem(outcome.body.result.v)>>,
                      isError |-> IsErrorOrFalse(outcome.body)])
       ELSE Returned([content |->
                        <<TextItem("Error: Invalid response format from tool execution server.")>>,
                      isError |-> Bool(TRUE)])
  ELSE Returned([content |-> <<TextItem(ToolErrorText(toolSlug, outcome))>>,
                 isError |-> Bool(TRUE)])

\* the parameter maps a client passes; they are forwarded as the request body
ParameterMaps == {<<>>, <<[key |-> "city", value |-> Str("Paris")]>>}

\* one invocation is followed from its start to the delivery of its outcome
CanInvoke == pc = "serving" /\ call.phase = "idle"

\* the serverId argument the registered handler passes to forwardToolCall
HandlerServerId(binding) ==
  IF build = "multi" THEN binding.serverId ELSE targetServerId

\* the client calls a registered tool: the handler runs up to its await
\* a tool handler whose request carries no timeout
InvokeTool_NoTimeout ==
  /\ CanInvoke
  /\ \E i \in DOMAIN serverInstance.tools, params \in ParameterMaps :
       LET binding == serverInstance.tools[i]
       IN call' = [phase |-> "calling", kind |-> "tool", name |-> binding.name,
                   received |-> params,
                   sent |-> <<[method |-> "POST", path |-> "execute",
                               serverId |-> HandlerServerId(binding),
                               key |-> binding.slug, body |-> params,
                               timeout |-> 0]>>,
                   outcome |-> Null, result |-> Null]
  /\ UNCHANGED <<input, output, inflight, build, apiKey, configFile, pc, exitCode,
                 exitCause, userFriendlyMessage, targetServerId, targetServerName,
                 serverDefinition, serverDefinitions, targetServerResources,
                 serverPrompts, serverInstance, si, ti, generated, requests>>

InvokeTool ==
  /\ CanInvoke
  /\ \E i \in DOMAIN serverInstance.tools, params \in ParameterMaps :
       LET binding == serverInstance.tools[i]
       IN call' = [phase |-> "calling", kind |-> "tool", name |-> binding.name,
                   received |-> params,
                   sent |-> <<[method |-> "POST", path |-> "execute",
                               serverId |-> HandlerServerId(binding),
                               key |-> binding.slug, body |-> params,
                               timeout |-> ExecuteTimeoutMs]>>,
                   outcome |-> Null, result |-> Null]
  /\ UNCHANGED <<input, output, inflight, build, apiKey, configFile, pc, exitCode, exitCause, userFriendlyMessage, targetServerId, targetServerName,
                 serverDefinition, serverDefinitions, targetServerResources,
                 serverPrompts, serverInstance, si, ti, generated, requests>>

\* a forwardToolCall that sends the request once more when it failed
CompleteTool_RetryOnce ==
  /\ pc = "serving"
  /\ call.phase = "calling"
  /\ call.kind = "tool"
  /\ \E outcome \in ExecuteOutcomes :
       IF outcome.kind # "ok" /\ Len(call.sent) = 1
       THEN call' = [call EXCEPT !.sent = Append(@, call.sent[1])]
       ELSE call' = [call EXCEPT !.phase = "done", !.outcome = outcome,
                                 !.result = forwardToolCall(call.sent[1].key, outcome)]
  /\ UNCHANGED <<input, output, inflight, build, apiKey, configFile, pc, exitCode, exitCause, userFriendlyMessage,
                 targetServerId, targetServerName, serverDefinition,
                 serverDefinitions, targetServerResources, serverPrompts,
                 serverInstance, si, ti, generated, requests>>

\* the remote call settles (or times out) and forwardToolCall completes
CompleteTool ==
  /\ pc = "serving"
  /\ call.phase = "calling"
  /\ call.kind = "tool"
  /\ \E outcome \in ExecuteOutcomes :
       call' = [call EXCEPT !.phase = "done", !.outcome = outcome,
                            !.result = forwardToolCall(call.sent[1].key, outcome)]
  /\ UNCHANGED <<input, output, inflight, build, apiKey, configFile, pc, exitCode, exitCause, userFriendlyMessage, targetServerId, targetServerName,
                 serverDefinition, serverDefinitions, targetServerResources,
                 serverPrompts, serverInstance, si, ti, generated, requests>>

-----------------------------------------------------------------------------
(* Resource read: the handler made by createReadHandler *)

\* what can come back from axios.get(readUrl, {headers}): a 2xx response, an
\* error status, a network error, or a RangeError raised inside the try block
\* while a large response is processed
ReadOutcomes ==
  {[kind |-> "ok", body |-> b] :
     b \in {[t |-> "object", contents |-> <<[uri |-> "file:///logo.png", blob |-> "iVBOR"]>>],
            [t |-> "object", contents |-> <<>>],
            Null}}
  \cup {[kind |-> "http_error", status |-> st] : st \in {403, 500}}
  \cup {[kind |-> "network_error", message |-> "socket hang up"]}
  \cup {[kind |-> "stack_overflow", message |-> "Maximum call stack size exceeded"]}

\* a read handler that turns a failed request into an empty result
ReadResult_Swallow(requestedUri, outcome) ==
  Returned([contents |-> IF outcome.kind = "ok" /\ outcome.body.t = "object"
                         THEN outcome.body.contents ELSE <<>>])

\* the try/catch around the axios.get of the read handler
ReadResult(requestedUri, outcome) ==
  CASE outcome.kind = "ok" ->
         Returned([contents |-> IF outcome.body.t = "object"
                                THEN outcome.body.contents ELSE <<>>])
    [] outcome.kind = "http_error" ->
         Thrown("Upstream server error: " \o NumToString(outcome.status))
    [] OTHER ->
         Thrown("Failed to read resource " \o requestedUri \o ": " \o outcome.message)

\* URL.prototype.href of the URIs of the model: the scheme is lower-cased
Href(uri) ==
  CASE uri = "FILE:///Doc" -> "file:///Doc"
    [] uri = "FILE:///logo.png" -> "file:///logo.png"
    [] OTHER -> uri

\* the URIs a client asks for
ClientUris == {"file:///logo.png", "FILE:///logo.png", "file:///doc", "FILE:///Doc",
               "file:///Doc"}

HexPairs ==
  <<[char |-> ":", hex |-> "3A"], [char |-> "/", hex |-> "2F"],
    [char |-> " ", hex |-> "20"], [char |-> "%", hex |-> "25"]>>

\* encodeURIComponent on the characters of the model's URIs
RECURSIVE EncodeURIComponent(_)
EncodeURIComponent(s) ==
  IF s = "" THEN ""
  ELSE LET c == SubSeq(s, 1, 1)
           at == {n \in DOMAIN HexPairs : HexPairs[n].char = c}
       IN (IF at = {} THEN c
           ELSE "%" \o HexPairs[CHOOSE n \in at : TRUE].hex)
          \o EncodeURIComponent(Tail(s))

\* a read request that does not say which server owns the resource
ReadRequest_NoHeader(requestedUri) ==
  [method |-> "GET", path |-> "read", serverId |-> Undefined,
   key |-> EncodeURIComponent(requestedUri), body |-> Undefined, timeout |-> 0]

\* axios.get(`.../mcp/resources/read?uri=${encodeURIComponent(requestedUri)}`,
\*           {headers: {"X-MCP-Target-Server-ID": targetServerId}})
ReadRequest(requestedUri) ==
  [method |-> "GET", path |-> "read", serverId |-> targetServerId,
   key |-> EncodeURIComponent(requestedUri), body |-> Undefined, timeout |-> 0]

\* the client reads a URI: the SDK parses it and calls the handler registered
\* under the parsed URL's text, if there is one, with that URL (uriFromSdk); the
\* handler runs up to its await, or throws at once when targetServerId is not set
InvokeRead ==
  /\ CanInvoke
  /\ \E uri \in ClientUris :
       LET requestedUri == Href(uri)
       IN /\ requestedUri \in ResourceUris(serverInstance)
          /\ IF ~Truthy(targetServerId)
             THEN call' = [phase |-> "done", kind |-> "resource", name |-> requestedUri,
                           received |-> Str(uri), sent |-> <<>>, outcome |-> Null,
                           result |-> Thrown("Relay not configured...")]
             ELSE call' = [phase |-> "calling", kind |-> "resource", name |-> requestedUri,
                           received |-> Str(uri),
                           sent |-> <<ReadRequest(requestedUri)>>,
                           outcome |-> Null, result |-> Null]
  /\ UNCHANGED <<input, output, inflight, build, apiKey, configFile, pc, exitCode, exitCause, userFriendlyMessage, targetServerId, targetServerName,
                 serverDefinition, serverDefinitions, targetServerResources,
                 serverPrompts, serverInstance, si, ti, generated, requests>>

\* a read handler whose stack overflow ends the process
CompleteRead_Fatal ==
  /\ pc = "serving"
  /\ call.phase = "calling"
  /\ call.kind = "resource"
  /\ \E outcome \in ReadOutcomes :
       /\ call' = [call EXCEPT !.phase = "done", !.outcome = outcome,
                               !.result = ReadResult(call.name, outcome)]
       /\ IF outcome.kind = "stack_overflow"
          THEN Exit("stack_overflow")
          ELSE UNCHANGED <<pc, exitCode, exitCause, userFriendlyMessage>>
  /\ UNCHANGED <<input, output, inflight, build, apiKey, configFile, targetServerId,
                 targetServerName, serverDefinition, serverDefinitions,
                 targetServerResources, serverPrompts, serverInstance, si, ti,
                 generated, requests>>

CompleteRead ==
  /\ pc = "serving"
  /\ call.phase = "calling"
  /\ call.kind = "resource"
  /\ \E outcome \in ReadOutcomes :
       call' = [call EXCEPT !.phase = "done", !.outcome = outcome,
                            !.result = ReadResult(call.name, outcome)]
  /\ UNCHANGED <<input, output, inflight, build, apiKey, configFile, pc, exitCode, exitCause, userFriendlyMessage, targetServerId, targetServerName,
                 serverDefinition, serverDefinitions, targetServerResources,
                 serverPrompts, serverInstance, si, ti, generated, requests>>

-----------------------------------------------------------------------------
(* Prompt retrieval: promptHandler *)

\* a JavaScript object as its list of own properties, an array as its items
Obj(props) == [t |-> "object", props |-> props]
Arr(items) == [t |-> "array", items |-> items]
P(key, value) == [key |-> key, value |-> value]

HasProp(o, k) == o.t = "object" /\ \E i \in DOMAIN o.props : o.props[i].key = k

\* o.k (undefined when o has no such property or is not an object)
Prop(o, k) ==
  IF HasProp(o, k)
  THEN o.props[CHOOSE i \in DOMAIN o.props : o.props[i].key = k].value
  ELSE Undefined

X1 == Obj(<<P("x", Num(1))>>)

\* argument payloads a client sends
PromptArgs ==
  {Undefined,
   X1,
   Str("{\"x\":1}"),
   Str("not json"),
   Str(""),
   Str("null"),
   Str("5"),
   Str("{\"params\":{\"arguments\":{\"x\":1}}}"),
   Obj(<<P("params", Obj(<<P("arguments", X1)>>))>>),
   Obj(<<P("params", Obj(<<>>)), P("x", Num(1))>>),
   Obj(<<P("params", Obj(<<P("arguments", Str("{\"x\":1}"))>>))>>),
   Obj(<<P("params", Str("p")), P("x", Num(1))>>)}

\* JSON.parse on the texts of PromptArgs and ArgumentPayloads; any other text
\* is a SyntaxError
JSONParse(text) ==
  CASE text = "{\"x\":1}" -> [ok |-> TRUE, value |-> X1]
    [] text = "null" -> [ok |-> TRUE, value |-> Null]
    [] text = "5" -> [ok |-> TRUE, value |-> Num(5)]
    [] text = "0" -> [ok |-> TRUE, value |-> Num(0)]
    [] text = "\"\"" -> [ok |-> TRUE, value |-> Str("")]
    [] text = "{\"params\":{\"arguments\":{\"x\":1}}}" ->
         [ok |-> TRUE, value |-> Obj(<<P("params", Obj(<<P("arguments", X1)>>))>>)]
    [] OTHER -> [ok |-> FALSE, value |-> Undefined]

\* the text of a JSON string: quotes and backslashes are escaped
RECURSIVE JSONEscape(_)
JSONEscape(s) ==
  IF s = "" THEN ""
  ELSE LET c == SubSeq(s, 1, 1)
       IN (IF c = "\"" THEN "\\\"" ELSE IF c = "\\" THEN "\\\\" ELSE c)
          \o JSONEscape(Tail(s))

RECURSIVE JSONStringify(_)
RECURSIVE JSONStringifyProps(_)
\* JSON.stringify on the values of the model
JSONStringify(v) ==
  CASE v.t = "string" -> Quoted(JSONEscape(v.v))
    [] v.t = "number" -> NumToString(v.v)
    [] v.t = "null" -> "null"
    [] v.t = "boolean" -> (IF v.v THEN "true" ELSE "false")
    [] v.t = "object" -> "{" \o JSONStringifyProps(v.props) \o "}"
    [] OTHER -> "undefined"

JSONStringifyProps(props) ==
  IF Len(props) = 0 THEN ""
  ELSE Quoted(props[1].key) \o ":" \o JSONStringify(props[1].value)
         \o (IF Len(props) = 1 THEN "" ELSE "," \o JSONStringifyProps(Tail(props)))

\* debug build: if (args && args.params && typeof args.params === "object")
\*                args = args.params.arguments || {}
UnwrapParams(args) ==
  IF Truthy(args) /\ Truthy(Prop(args, "params"))
       /\ Prop(args, "params").t \in {"object", "array"}
  THEN IF Truthy(Prop(Prop(args, "params"), "arguments"))
       THEN Prop(Prop(args, "params"), "arguments")
       ELSE Obj(<<>>)
  ELSE args

\* a handler that forwards a string payload as it came
ParseIfString_Never(args) == args

\* debug build: if (typeof args === "string") try { args = JSON.parse(args) } catch {}
ParseIfString(args) ==
  IF args.t = "string" /\ JSONParse(args.v).ok THEN JSONParse(args.v).value ELSE args

\* a handler that parses a string payload first and unwraps afterwards
NormalizedArguments_ParseFirst(args) ==
  LET a == UnwrapParams(ParseIfString(args))
  IN IF Truthy(a) THEN a ELSE Obj(<<>>)

\* debug build: the arguments member of requestData (args || {})
NormalizedArguments(args) ==
  LET a == ParseIfString(UnwrapParams(args))
  IN IF Truthy(a) THEN a ELSE Obj(<<>>)

Message(text) == Obj(<<P("role", Str("user")), P("content", Str(text))>>)

\* what the prompt request can bring back: a failure, or a 2xx with a body
PromptOutcomes ==
  {[kind |-> "ok", body |-> b] :
     b \in {Obj(<<P("description", Str("from server")),
                  P("messages", Arr(<<Message("hi")>>))>>),
            Obj(<<P("messages", Arr(<<Message("hi")>>))>>),
            Arr(<<Message("raw")>>),
            Obj(<<P("description", Str("only text")), P("messages", Str("hi"))>>),
            Null}}
  \cup {[kind |-> "http_error", status |-> 500, statusText |-> "Internal Server Error"]}
  \cup {[kind |-> "network_error", message |-> "connect ECONNREFUSED"]}

\* scoped build: fetch(...), the response.ok test and response.json()
PlainPromptResult(outcome) ==
  CASE outcome.kind = "ok" -> Returned(outcome.body)
    [] outcome.kind = "http_error" ->
         Thrown("Failed to fetch prompt: " \o outcome.statusText)
    [] OTHER -> Thrown(outcome.message)

\* a normalisation that does not take a body that is itself an array
NormalizedPrompt_NoBareArray(promptDef, originalData) ==
  LET fallback == IF promptDef.description # ""
                  THEN Str(promptDef.description) ELSE Undefined
      messages == Prop(originalData, "messages")
      description == Prop(originalData, "description")
  IN [description |-> IF Truthy(description) THEN description ELSE fallback,
      messages |-> IF Truthy(messages) /\ messages.t = "array"
                   THEN messages.items ELSE <<>>]

\* debug build: the normalisation of response.data to {description, messages}
NormalizedPrompt(promptDef, originalData) ==
  LET fallback == IF promptDef.description # ""
                  THEN Str(promptDef.description) ELSE Undefined
      messages == Prop(originalData, "messages")
      description == Prop(originalData, "description")
  IN IF Truthy(messages) /\ messages.t = "array"
     THEN [description |-> IF Truthy(description) THEN description ELSE fallback,
           messages |-> messages.items]
     ELSE IF originalData.t = "array"
     THEN [description |-> fallback, messages |-> originalData.items]
     ELSE [description |-> IF Truthy(description) THEN description ELSE fallback,
           messages |-> <<>>]

\* debug build: promptHandler from the settling of axios.post to its completion
DebugPromptResult(promptDef, outcome) ==
  CASE outcome.kind = "ok" ->
         IF ~Truthy(outcome.body)
         THEN Thrown("Invalid response from server for prompt \"" \o promptDef.name \o "\"")
         ELSE Returned(NormalizedPrompt(promptDef, outcome.body))
    [] outcome.kind = "http_error" ->
         Thrown("Request failed with status code " \o NumToString(outcome.status))
    [] OTHER -> Thrown(outcome.message)

PromptNamed(name) ==
  serverInstance.prompts[CHOOSE i \in DOMAIN serverInstance.prompts :
                           serverInstance.prompts[i].name = name]

\* the request promptHandler issues
PromptRequest(promptDef, args) ==
  IF build = "debug"
  THEN [method |-> "POST", path |-> "prompts/get", serverId |-> targetServerId,
        key |-> promptDef.name,
        body |-> Obj(<<P("params", Obj(<<P("name", Str(promptDef.name)),
                                         P("arguments", NormalizedArguments(args))>>))>>),
        timeout |-> 0]
  ELSE [method |-> "POST", path |-> "prompts", serverId |-> Undefined,
        key |-> promptDef.name, body |-> Str(JSONStringify(args)), timeout |-> 0]

\* the client gets a registered prompt: the handler runs up to its await
InvokePrompt ==
  /\ CanInvoke
  /\ \E i \in DOMAIN serverInstance.prompts, args \in PromptArgs :
       LET promptDef == serverInstance.prompts[i]
       IN call' = [phase |-> "calling", kind |-> "prompt", name |-> promptDef.name,
                   received |-> args,
                   sent |-> <<PromptRequest(promptDef, args)>>,
                   outcome |-> Null, result |-> Null]
  /\ UNCHANGED <<input, output, inflight, build, apiKey, configFile, pc, exitCode, exitCause, userFriendlyMessage, targetServerId, targetServerName,
                 serverDefinition, serverDefinitions, targetServerResources,
                 serverPrompts, serverInstance, si, ti, generated, requests>>

CompletePrompt ==
  /\ pc = "serving"
  /\ call.phase = "calling"
  /\ call.kind = "prompt"
  /\ \E outcome \in PromptOutcomes :
       call' = [call EXCEPT !.phase = "done", !.outcome = outcome,
                            !.result = IF build = "debug"
                                       THEN DebugPromptResult(PromptNamed(call.name), outcome)
                                       ELSE PlainPromptResult(outcome)]
  /\ UNCHANGED <<input, output, inflight, build, apiKey, configFile, pc, exitCode, exitCause, userFriendlyMessage, targetServerId, targetServerName,
                 serverDefinition, serverDefinitions, targetServerResources,
                 serverPrompts, serverInstance, si, ti, generated, requests>>

-----------------------------------------------------------------------------
(* Properties of the handlers *)

ToolDone == call.phase = "done" /\ call.kind = "tool"
ReadDone == call.phase = "done" /\ call.kind = "resource"
PromptDone == call.phase = "done" /\ call.kind = "prompt"

\* the remote outcomes C1 lists: an HTTP error status, no response or timeout,
\* a request-setup error, a non-axios exception, a 2xx without a string result
ToolFailure(outcome) ==
  \/ outcome.kind \in {"http_error", "no_response", "setup_error", "non_axios"}
  \/ outcome.kind = "ok" /\ ~(outcome.body.t = "object" /\ outcome.body.result.t = "string")

\* C1: whatever way the remote call of a tool invocation fails, forwardToolCall
\* returns (it does not throw) an envelope with exactly one content item, of
\* type text, and isError = true.
C1_ToolFailureIsEnvelope ==
  (ToolDone /\ ToolFailure(call.outcome)) =>
     /\ call.result.how = "return"
     /\ Len(call.result.value.content) = 1
     /\ call.result.value.content[1].type = "text"
     /\ call.result.value.isError = Bool(TRUE)

C1_Witness ==
  /\ ToolDone
  /\ call.outcome.kind = "non_axios"
  /\ call.result.how = "return"
  /\ call.result.value.isError = Bool(TRUE)

\* C2: a 2xx body {result: X, isError: b} with X a string comes back as one text
\* item whose text is X, uncut, with isError = b; isError is false when the body
\* has none.
C2_SuccessRoundTrip ==
  (ToolDone /\ call.outcome.kind = "ok" /\ call.outcome.body.t = "object"
     /\ call.outcome.body.result.t = "string") =>
     /\ call.result.how = "return"
     /\ call.result.value.content =
          <<[type |-> "text", text |-> call.outcome.body.result.v]>>
     /\ (call.outcome.body.isError.t = "boolean" =>
           call.result.value.isError = call.outcome.body.isError)
     /\ (call.outcome.body.isError = Undefined =>
           call.result.value.isError = Bool(FALSE))

C2_Witness ==
  /\ ToolDone
  /\ call.outcome.kind = "ok"
  /\ call.outcome.body = ExecuteBody(Str(LongText), Bool(FALSE))
  /\ Len(call.result.value.content[1].text) > MaxErrLen

\* C3: a failed remote call of a resource read or of a prompt retrieval ends
\* with the handler throwing, while the tool handler returns an isError envelope
\* for a failed remote call.
C3_ReadAndPromptFailuresThrow ==
  /\ (ReadDone /\ call.outcome # Null
        /\ call.outcome.kind \in {"http_error", "network_error"}) =>
       call.result.how = "throw"
  /\ (PromptDone /\ call.outcome.kind \in {"http_error", "network_error"}) =>
       call.result.how = "throw"
  /\ (ToolDone /\ call.outcome.kind \in {"http_error", "no_response"}) =>
       (call.result.how = "return" /\ call.result.value.isError = Bool(TRUE))

C3_Witness ==
  /\ ReadDone
  /\ call.outcome # Null
  /\ call.outcome.kind = "http_error"
  /\ call.result = Thrown("Upstream server error: 500")

-----------------------------------------------------------------------------
(* Properties of startup *)

\* ^[A-Za-z0-9_-]{1,64}$
MatchesGrammar(id) ==
  /\ Len(id) >= 1
  /\ Len(id) <= MaxIdLen
  /\ \A i \in 1..Len(id) : SubSeq(id, i, i) \in LegalChars

StartupOver == pc \in {"serving", "exited"}

RegisteredToolNames == [i \in DOMAIN serverInstance.tools |-> serverInstance.tools[i].name]
RegisteredResourceNames ==
  [i \in DOMAIN serverInstance.resources |-> serverInstance.resources[i].name]
RegisteredResourceUris ==
  [i \in DOMAIN serverInstance.resources |-> serverInstance.resources[i].uri]
RegisteredPromptNames ==
  [i \in DOMAIN serverInstance.prompts |-> serverInstance.prompts[i].name]

\* C4 as stated: after startup the identifiers registered for tools, resources
\* and prompts alike are pairwise distinct and match ^[A-Za-z0-9_-]{1,64}$.
C4_AllIdentifiersLegal ==
  StartupOver =>
    /\ Distinct(RegisteredToolNames)
    /\ Distinct(RegisteredResourceNames)
    /\ Distinct(RegisteredPromptNames)
    /\ \A i \in DOMAIN RegisteredToolNames : MatchesGrammar(RegisteredToolNames[i])
    /\ \A i \in DOMAIN RegisteredResourceNames : MatchesGrammar(RegisteredResourceNames[i])
    /\ \A i \in DOMAIN RegisteredPromptNames : MatchesGrammar(RegisteredPromptNames[i])

\* C4 amended: the registered tool names are pairwise distinct and match
\* ^[A-Za-z0-9_-]{1,64}$; resources and prompts are registered under the
\* backend's own name, not sanitized, pairwise distinct in their key (the URI of
\* a resource, the name of a prompt).  Registrations are looked at between
\* invocations, which do not change them.
C4_ToolIdentifiersLegal ==
  call = NoCall =>
    /\ Distinct(RegisteredToolNames)
    /\ \A i \in DOMAIN RegisteredToolNames : MatchesGrammar(RegisteredToolNames[i])
    /\ Distinct(RegisteredResourceUris)
    /\ Distinct(RegisteredPromptNames)
    /\ \A i \in DOMAIN serverInstance.resources :
         \E k \in DOMAIN targetServerResources :
           /\ targetServerResources[k].name = serverInstance.resources[i].name
           /\ targetServerResources[k].uri = serverInstance.resources[i].uri
    /\ \A i \in DOMAIN serverInstance.prompts :
         \E k \in DOMAIN serverPrompts :
           serverPrompts[k].name = serverInstance.prompts[i].name

C4_Witness ==
  /\ pc = "serving"
  /\ \E i \in DOMAIN serverInstance.tools :
       /\ serverInstance.tools[i].toolName = "Get Weather"
       /\ serverInstance.tools[i].name = "Get_Weather"
  /\ \E i \in DOMAIN serverInstance.tools : serverInstance.tools[i].toolName = LongNameA
  /\ \E i \in DOMAIN serverInstance.prompts :
       serverInstance.prompts[i].name = "Vapi Campaign Creator"

\* C5: once startup is over, a capability category is declared only if at least
\* one member of it is registered.
C5_DeclaredOnlyIfRegistered ==
  pc = "serving" =>
    /\ (serverInstance.capabilities.tools => Len(serverInstance.tools) > 0)
    /\ (serverInstance.capabilities.resources => Len(serverInstance.resources) > 0)
    /\ (serverInstance.capabilities.prompts => Len(serverInstance.prompts) > 0)

IssuedTo(path) == {i \in DOMAIN requests : requests[i].path = path}

\* C6: a scoped relay whose configured target could not be fetched (the request
\* failed or named no server) has fetched all accessible servers, without a
\* serverId, by the time it serves.
C6_FallsBackToAllServers ==
  (pc = "serving" /\ build # "multi"
     /\ IssuedTo("/mcp/servers") # {} /\ serverDefinition = Null) =>
    \E i \in DOMAIN requests :
      /\ requests[i].serverId = Undefined
      /\ requests[i].ok

DefinitionFetchFailed ==
  \E i \in IssuedTo("/mcp/servers") \cup IssuedTo("/api/mcp/servers") : ~requests[i].ok

FetchFailed(path) == \E i \in IssuedTo(path) : ~requests[i].ok

\* the keys of a list that get registered when a duplicate key makes the SDK throw
RECURSIVE UntilDuplicate(_, _)
UntilDuplicate(keys, acc) ==
  IF keys = <<>> THEN acc
  ELSE IF Head(keys) \in Range(acc) THEN acc
  ELSE UntilDuplicate(Tail(keys), Append(acc, Head(keys)))

NonEmpty(x) == x # ""

\* the tool names the fetched definition asks for, blank ones dropped
WantedToolNames ==
  IF serverDefinition = Null THEN <<>>
  ELSE SelectSeq([i \in DOMAIN serverDefinition.tools |->
                    sanitize(serverDefinition.tools[i].name)], NonEmpty)

WantedResourceUris == [i \in DOMAIN targetServerResources |-> targetServerResources[i].uri]
WantedPromptNames == [i \in DOMAIN serverPrompts |-> serverPrompts[i].name]

\* C8: when the resources-list or the prompts-list fetch failed, the failed
\* category is empty and undeclared, the tools and the other category are
\* registered from their own fetched lists as they would be without the failure,
\* and the process ends only for the reasons it would end without it (a tool
\* registration that throws, a transport that cannot be attached): otherwise the
\* transport is attached.
C8_SecondaryFailureDegrades ==
  (StartupOver /\ call = NoCall /\ build # "multi"
     /\ (FetchFailed("/mcp/resources/list") \/ FetchFailed("/mcp/prompts/list"))) =>
    /\ FetchFailed("/mcp/resources/list") =>
         (serverInstance.resources = <<>> /\ ~serverInstance.capabilities.resources)
    /\ FetchFailed("/mcp/prompts/list") =>
         (serverInstance.prompts = <<>> /\ ~serverInstance.capabilities.prompts)
    /\ RegisteredToolNames = UntilDuplicate(WantedToolNames, <<>>)
    /\ serverInstance.capabilities.tools = HasTools
    /\ serverInstance.capabilities.resources = (Len(targetServerResources) > 0)
    /\ serverInstance.capabilities.prompts = (Len(serverPrompts) > 0)
    /\ (pc = "exited" => exitCause \in {"tool_registration", "connect", "stack_overflow"})
    /\ (exitCause = "tool_registration") = ~Distinct(WantedToolNames)
    /\ (pc = "serving" =>
          /\ serverInstance.connected
          /\ RegisteredResourceUris = UntilDuplicate(WantedResourceUris, <<>>)
          /\ RegisteredPromptNames = UntilDuplicate(WantedPromptNames, <<>>))

C8_Witness ==
  /\ pc = "serving"
  /\ FetchFailed("/mcp/resources/list")
  /\ ~FetchFailed("/mcp/prompts/list")
  /\ serverInstance.connected
  /\ Len(serverInstance.tools) = 2
  /\ Len(serverInstance.prompts) = 2

\* C9 as stated: in the multi build every registered tool is named
\* sanitize(server id) + "_" + sanitize(tool slug), cut to 64 characters.
C9_NameFromSlug ==
  build = "multi" =>
    \A i \in DOMAIN serverInstance.tools :
      serverInstance.tools[i].name =
        Substring0(sanitize(serverInstance.tools[i].serverId.v) \o "_"
                     \o sanitize(serverInstance.tools[i].slug), MaxIdLen)

\* C9 amended: in the multi build every registered tool is named
\* sanitize(server id) + "_" + sanitize(tool display name), cut to 64
\* characters; servers "srv1" and "srv2" whose tools both have the slug "ping"
\* and the display names "ping" and "Ping!" give "srv1_ping" and "srv2_Ping_".
C9_NameFromDisplayName ==
  build = "multi" =>
    \A i \in DOMAIN serverInstance.tools :
      LET b == serverInstance.tools[i]
      IN /\ b.name = Substring0(sanitize(b.serverId.v) \o "_" \o sanitize(b.toolName),
                                MaxIdLen)
         /\ (b.serverId.v = "srv1" /\ b.toolName = "ping") => b.name = "srv1_ping"
         /\ (b.serverId.v = "srv2" /\ b.toolName = "Ping!") => b.name = "srv2_Ping_"

C9_Witness ==
  /\ build = "multi"
  /\ pc = "serving"
  /\ \E i, j \in DOMAIN serverInstance.tools :
       /\ serverInstance.tools[i].name = "srv1_ping"
       /\ serverInstance.tools[i].slug = "ping"
       /\ serverInstance.tools[j].name = "srv2_Ping_"
       /\ serverInstance.tools[j].slug = "ping"

\* the definition of the tool of server serverId that has the slug
ToolOf(serverId, slug) ==
  LET k == CHOOSE k \in DOMAIN serverDefinitions : serverDefinitions[k].id = serverId
      tools == serverDefinitions[k].tools
  IN tools[CHOOSE n \in DOMAIN tools : tools[n].slug = slug]

\* C10 as stated: in the multi build two tools of one server with different
\* slugs get different local identifiers.
C10_DistinctSlugsDistinctNames ==
  build = "multi" =>
    \A i, j \in DOMAIN generated :
      (i # j /\ generated[i].serverId = generated[j].serverId
         /\ generated[i].slug # generated[j].slug) =>
        generated[i].name # generated[j].name

FitsUncut(serverId, toolName) ==
  Len(sanitize(serverId)) + 1 + Len(sanitize(toolName)) <= MaxIdLen

\* C10 amended: in the multi build two tools of one server whose sanitized
\* display names differ, and whose identifiers fit in 64 characters uncut, get
\* different local identifiers (different slugs alone do not give that).
C10_DistinctDisplayNamesDistinctNames ==
  build = "multi" =>
    \A i, j \in DOMAIN generated :
      LET sid == generated[i].serverId
          ni == ToolOf(sid, generated[i].slug).name
          nj == ToolOf(sid, generated[j].slug).name
      IN (i # j /\ generated[j].serverId = sid
            /\ sanitize(ni) # sanitize(nj)
            /\ FitsUncut(sid, ni) /\ FitsUncut(sid, nj)) =>
           generated[i].name # generated[j].name

C10_Witness ==
  /\ build = "multi"
  /\ pc = "serving"
  /\ Len(generated) = 2
  /\ generated[1].serverId = generated[2].serverId
  /\ generated[1].slug # generated[2].slug
  /\ generated[1].name # generated[2].name

ToolInvoked == call.kind = "tool" /\ call.phase \in {"calling", "done"}

BindingNamed(name) ==
  serverInstance.tools[CHOOSE i \in DOMAIN serverInstance.tools :
                         serverInstance.tools[i].name = name]

\* C11: in the scoped builds every registered tool is one of the target
\* server's tools under the name sanitize(tool.name) (looked at between
\* invocations, which do not change registrations), and an invocation of it
\* issues one execute request keyed by the configured target server id (the id
\* the definition fetch was made for) and the tool's slug, whose body is the
\* parameter map the client passed.
C11_ScopedNameAndForwardingKey ==
  build # "multi" =>
    /\ call = NoCall =>
         \A i \in DOMAIN serverInstance.tools :
           LET b == serverInstance.tools[i]
           IN /\ b.name = sanitize(b.toolName)
              /\ \E n \in DOMAIN serverDefinition.tools :
                   /\ serverDefinition.tools[n].name = b.toolName
                   /\ serverDefinition.tools[n].slug = b.slug
    /\ ToolInvoked =>
         /\ Len(call.sent) = 1
         /\ call.sent[1].path = "execute"
         /\ Truthy(call.sent[1].serverId)
         /\ call.sent[1].serverId = requests[1].serverId
         /\ call.sent[1].key = BindingNamed(call.name).slug
         /\ call.sent[1].body = call.received

C11_Witness ==
  /\ build = "scoped"
  /\ ToolInvoked
  /\ call.name = "Get_Weather"
  /\ BindingNamed(call.name).toolName = "Get Weather"
  /\ call.received = <<[key |-> "city", value |-> Str("Paris")]>>
  /\ call.sent[1].serverId = Str("srv1")
  /\ call.sent[1].key = "get-weather"
  /\ call.sent[1].body = call.received

PromptInvoked == call.kind = "prompt" /\ call.phase \in {"calling", "done"}

\* the body {params: {name, arguments}} of a prompt request
PromptEnvelope(name, arguments) ==
  Obj(<<P("params", Obj(<<P("name", Str(name)), P("arguments", arguments)>>))>>)

\* the payload is a string holding JSON text
IsJSONText(args) == args.t = "string" /\ JSONParse(args.v).ok

\* the payload carries a params object (the wrapper some clients send)
IsWrapped(args) == args.t = "object" /\ Prop(args, "params").t = "object"

PromptAnswered == PromptDone /\ call.outcome.kind = "ok"

\* the description the prompt was registered with, undefined when empty
DefinitionDescription ==
  LET d == PromptNamed(call.name).description
  IN IF d = "" THEN Undefined ELSE Str(d)

\* the {description, messages} the claim assigns to a response body
ExpectedPrompt(body) ==
  LET messages == Prop(body, "messages")
      description == Prop(body, "description")
      own == IF description.t = "string" /\ description.v # ""
             THEN description ELSE DefinitionDescription
  IN IF messages.t = "array"
     THEN [description |-> own, messages |-> messages.items]
     ELSE IF body.t = "array"
     THEN [description |-> DefinitionDescription, messages |-> body.items]
     ELSE [description |-> own, messages |-> <<>>]

\* the handler returned, and what it returned is value
HandlerReturned(value) == call.result.how = "return" /\ call.result.value = value

ReadInvoked == call.kind = "resource" /\ call.phase \in {"calling", "done"}

\* the text a percent-encoded query value stands for
RECURSIVE DecodeURIComponent(_)
DecodeURIComponent(s) ==
  IF s = "" THEN ""
  ELSE IF SubSeq(s, 1, 1) = "%" /\ Len(s) >= 3
  THEN LET at == {n \in DOMAIN HexPairs : HexPairs[n].hex = SubSeq(s, 2, 3)}
       IN (IF at = {} THEN "?" ELSE HexPairs[CHOOSE n \in at : TRUE].char)
          \o DecodeURIComponent(SubSeq(s, 4, Len(s)))
  ELSE SubSeq(s, 1, 1) \o DecodeURIComponent(Tail(s))

\* C16: a resource read issues one read request whose uri query value stands
\* for the URI the resource was registered under, character for character, and
\* whose header names the target server; when the response carries a contents
\* list, the handler returns exactly that list.
C16_ReadForwardsRegisteredUri ==
  ReadInvoked =>
    /\ Len(call.sent) = 1
    /\ call.sent[1].path = "read"
    /\ \E i \in DOMAIN serverInstance.resources :
         DecodeURIComponent(call.sent[1].key) = serverInstance.resources[i].uri
    /\ DecodeURIComponent(call.sent[1].key) = Href(call.received.v)
    /\ Truthy(call.sent[1].serverId)
    /\ call.sent[1].serverId = requests[1].serverId
    /\ (call.phase = "done" /\ call.outcome.kind = "ok"
          /\ call.outcome.body.t = "object") =>
         call.result = Returned([contents |-> call.outcome.body.contents])

C16_Witness ==
  /\ ReadDone
  /\ call.received = Str("FILE:///logo.png")
  /\ call.sent[1].key = "file%3A%2F%2F%2Flogo.png"
  /\ call.sent[1].serverId = Str("srv1")
  /\ call.outcome.kind = "ok"
  /\ call.result =
       Returned([contents |-> <<[uri |-> "file:///logo.png", blob |-> "iVBOR"]>>])

StartsWith(text, prefix) ==
  Len(text) >= Len(prefix) /\ SubSeq(text, 1, Len(prefix)) = prefix

\* a tool invocation whose remote call failed in transport or with an HTTP
\* error status
ToolTransportFailure ==
  /\ ToolDone
  /\ call.outcome.kind \in {"http_error", "no_response", "setup_error", "non_axios"}

\* C17: after a transport or HTTP failure the returned text names the slug
\* (it begins "Error executing tool '<slug>'"), goes on with "(Status: <code>)"
\* when a response was received, has at most 1000 characters, and is the value
\* at (slug, failure) of one function, whatever the server, the parameters and
\* the build.
C17_ErrorTextNamesSlugAndStatus ==
  ToolTransportFailure =>
    LET text == call.result.value.content[1].text
        slug == call.sent[1].key
    IN /\ call.result.how = "return"
       /\ Len(text) <= MaxErrLen
       /\ StartsWith(text, "Error executing tool '" \o slug \o "'")
       /\ call.outcome.kind = "http_error" =>
            StartsWith(text, "Error executing tool '" \o slug \o "' (Status: "
                               \o NumToString(call.outcome.status) \o ").")
       /\ call.outcome.kind # "http_error" =>
            StartsWith(text, "Error executing tool '" \o slug \o "'. ")
       /\ text = ToolErrorText(slug, call.outcome)

C17_Witness ==
  /\ ToolTransportFailure
  /\ call.outcome.kind = "http_error"
  /\ call.outcome.status = 404
  /\ call.outcome.data = ErrorObject(Str(LongText), Undefined)
  /\ call.sent[1].key = "get-weather"
  /\ Len(call.result.value.content[1].text) = MaxErrLen
  /\ StartsWith(call.result.value.content[1].text,
                "Error executing tool 'get-weather' (Status: 404). Server Error: xxx")

\* the place of each position of main() in the startup chain
Rank(p) ==
  CASE p = "start" -> 0
    [] p = "config" -> 1
    [] p = "fetch_defs" -> 2
    [] p = "fetch_resources" -> 3
    [] p = "fetch_prompts" -> 4
    [] p = "construct" -> 5
    [] p = "reg_tools" -> 6
    [] p = "reg_resources" -> 7
    [] p = "reg_prompts" -> 8
    [] p = "connect" -> 9
    [] p = "serving" -> 10
    [] OTHER -> 11

\* the position at which main() issues the request to `path`
RequestRank(path) ==
  CASE path = "/mcp/resources/list" -> 3
    [] path = "/mcp/prompts/list" -> 4
    [] OTHER -> 2

\* every registration the fetched definitions ask for has been made
RegistrationsFinished ==
  IF build = "multi"
  THEN \A s \in DOMAIN serverDefinitions :
         \A t \in DOMAIN serverDefinitions[s].tools :
           LET id == serverDefinitions[s].id
               toolDef == serverDefinitions[s].tools[t]
           IN (sanitize(id) # "" /\ sanitize(toolDef.name) # "") =>
                \E i \in DOMAIN serverInstance.tools :
                  /\ serverInstance.tools[i].serverId = Str(id)
                  /\ serverInstance.tools[i].slug = toolDef.slug
  ELSE /\ RegisteredToolNames = WantedToolNames
       /\ RegisteredResourceUris = UntilDuplicate(WantedResourceUris, <<>>)
       /\ RegisteredPromptNames = UntilDuplicate(WantedPromptNames, <<>>)

\* what each position of main() implies about the steps before it
StartupOrderInState ==
  /\ \A i, j \in DOMAIN requests :
       i < j => RequestRank(requests[i].path) < RequestRank(requests[j].path)
  /\ \A i \in DOMAIN requests :
       pc # "exited" => RequestRank(requests[i].path) < Rank(pc)
  /\ (pc # "exited" => (serverInstance.created <=> Rank(pc) > Rank("construct")))
  /\ (serverInstance.created \/ requests # <<>>) => pc \notin {"start", "config"}
  /\ (serverInstance.tools # <<>> => serverInstance.created)
  /\ (serverInstance.resources # <<>> =>
        (serverInstance.created /\ (pc # "exited" => Rank(pc) >= Rank("reg_resources"))))
  /\ (serverInstance.prompts # <<>> =>
        (serverInstance.created /\ (pc # "exited" => Rank(pc) >= Rank("reg_prompts"))))
  /\ (serverInstance.connected => pc = "serving")
  /\ (pc = "serving" => serverInstance.connected)
  /\ ((pc = "serving" /\ call = NoCall) => RegistrationsFinished)
  /\ (call # NoCall => pc = "serving")

\* what one step of the process may change
StartupOrderInSteps ==
  /\ pc' # pc => (pc' = "exited" \/ Rank(pc') > Rank(pc))
  /\ targetServerId' # targetServerId => pc \in {"config", "fetch_defs"}
  /\ requests' # requests =>
       (Len(requests') = Len(requests) + 1
          /\ Rank(pc) = RequestRank(requests'[Len(requests')].path))
  /\ serverInstance'.created # serverInstance.created => pc = "construct"
  /\ serverInstance'.tools # serverInstance.tools => pc = "reg_tools"
  /\ serverInstance'.resources # serverInstance.resources => pc = "reg_resources"
  /\ serverInstance'.prompts # serverInstance.prompts => pc = "reg_prompts"
  /\ serverInstance'.connected # serverInstance.connected => pc = "connect"
  /\ call' # call => (pc = "serving" /\ pc' = "serving")
  /\ pc = "serving" =>
       (serverInstance' = serverInstance /\ serverDefinition' = serverDefinition
          /\ serverDefinitions' = serverDefinitions
          /\ targetServerResources' = targetServerResources
          /\ serverPrompts' = serverPrompts)

\* C18: main() goes through its steps in one order (configuration, server
\* definition, resources list, prompts list, server construction, tool,
\* resource and prompt registration, transport), each step taken at its own
\* position only, and a client invocation is handled only once the transport
\* is attached, which is after every registration has been made.
C18_StartupIsSequential ==
  [](StartupOrderInState) /\ [][StartupOrderInSteps]_vars

C18_Witness ==
  /\ pc = "serving"
  /\ call.phase = "done"
  /\ Len(requests) = 3
  /\ serverInstance.tools # <<>>
  /\ serverInstance.resources # <<>>
  /\ serverInstance.prompts # <<>>

\* the remote call of the finished invocation failed
RemoteCallFailed ==
  /\ call.phase = "done"
  /\ call.outcome # Null
  /\ call.outcome.kind # "ok"

NoRetryInState ==
  /\ Len(call.sent) <= 1
  /\ call.phase = "calling" => (Len(call.sent) = 1 /\ call.outcome = Null /\ call.result = Null)
  /\ call.phase = "done" => call.result # Null
  /\ RemoteCallFailed =>
       /\ Len(call.sent) = 1
       /\ IF call.kind = "tool"
          THEN call.result.how = "return" /\ call.result.value.isError = Bool(TRUE)
          ELSE call.result.how = "throw"

NoRetryInSteps ==
  /\ (call.phase = "calling" /\ call' # call) =>
       (call'.phase = "done" /\ call'.sent = call.sent /\ call'.name = call.name)
  /\ (call.phase = "done" /\ call' # call) => call' = NoCall

\* C19: an invocation issues at most one remote request; when that request
\* settles the invocation is finished with one outcome, which for a failed
\* request is the error envelope (tools) or the thrown error (reads, prompts);
\* nothing is sent after that.
C19_NoRetry ==
  [](NoRetryInState) /\ [][NoRetryInSteps]_vars

C19_Witness ==
  /\ ToolDone
  /\ call.outcome.kind = "no_response"
  /\ Len(call.sent) = 1
  /\ call.result.value.isError = Bool(TRUE)

\* a stack overflow was raised while the finished read was handled
OverflowInRead ==
  /\ ReadDone
  /\ call.outcome # Null
  /\ call.outcome.kind = "stack_overflow"

\* C20: a stack overflow, at startup or while a client request is handled,
\* ends the process after the message about a larger stack size was reported.
C20_StackOverflowIsFatal ==
  /\ exitCause = "stack_overflow" =>
       (pc = "exited" /\ exitCode = 1 /\ userFriendlyMessage = StackSizeRemedy)
  /\ OverflowInRead =>
       (pc = "exited" /\ exitCode = 1 /\ userFriendlyMessage = StackSizeRemedy)

-----------------------------------------------------------------------------
(* Credential and configuration file *)

CredentialUnusable == pc # "start" /\ apiKey # ValidApiKey

ConfigFileUnusable == configFile.state \in {"missing", "malformed"}

-----------------------------------------------------------------------------
(* What ends the process *)

\* the statements of startup that reach process.exit(1)
FatalCauses ==
  {"api_key", "fetch_definitions", "tool_registration", "connect", "stack_overflow"}

\* C22 (as stated): the process terminates only because of a configuration
\* or discovery failure during startup.
C22_OnlyConfigOrDiscoveryTerminates ==
  pc = "exited" => exitCause \in {"api_key", "fetch_definitions"}

\* C22 (as the code has it): the process ends only during startup, with code
\* 1, and for one of: the missing credential, the multi build's failed
\* definitions fetch, an exception while a tool is registered, a transport
\* that fails to attach.  Once the transport is attached the process never
\* ends, and a finished invocation has either returned a value or thrown to
\* the SDK, which answers the client.
C22_TerminatesOnlyDuringStartup ==
  /\ pc = "exited" =>
       /\ exitCode = 1
       /\ exitCause \in FatalCauses
       /\ ~serverInstance.connected
       /\ call = NoCall
  /\ pc # "exited" => (exitCode = -1 /\ exitCause = "")
  /\ exitCause = "fetch_definitions" => build = "multi"
  /\ serverInstance.connected => pc = "serving"
  /\ call # NoCall => pc = "serving"
  /\ call.phase = "done" => call.result.how \in {"return", "throw"}

\* startup ended because the transport did not attach, after a tool had been
\* registered
C22_Witness ==
  /\ pc = "exited"
  /\ exitCause = "connect"
  /\ serverInstance.tools # <<>>

-----------------------------------------------------------------------------
(* Bound identifiers *)

\* the server a capability was registered for: the server whose tool list is
\* being walked (multi build), the configured target whose definition was
\* fetched (scoped builds)
BoundServerId ==
  IF build = "multi" THEN BindingNamed(call.name).serverId ELSE requests[1].serverId

RemotePaths == {"execute", "read", "prompts", "prompts/get"}

\* C23: an invocation issues one remote call, never a discovery request,
\* with the server identifier and the remote key (tool slug, resource URI,
\* prompt name) bound at registration; in the multi build the tool registered
\* for server S calls S with a slug of S.
C23_BoundIdentifiersUsed ==
  (call # NoCall /\ call.sent # <<>>) =>
    /\ Len(call.sent) = 1
    /\ call.sent[1].path \in RemotePaths
    /\ call.sent[1].serverId = BoundServerId
    /\ call.kind = "tool" =>
         /\ call.sent[1].key = BindingNamed(call.name).slug
         /\ build = "multi" =>
              \E s \in DOMAIN serverDefinitions :
                /\ Str(serverDefinitions[s].id) = call.sent[1].serverId
                /\ \E n \in DOMAIN serverDefinitions[s].tools :
                     /\ serverDefinitions[s].tools[n].slug = call.sent[1].key
                     /\ serverDefinitions[s].tools[n].name
                          = BindingNamed(call.name).toolName
    /\ call.kind = "resource" =>
         /\ call.name \in ResourceUris(serverInstance)
         /\ DecodeURIComponent(call.sent[1].key) = call.name
    /\ call.kind = "prompt" =>
         /\ call.name \in PromptNames(serverInstance)
         /\ call.sent[1].key = call.name

-----------------------------------------------------------------------------
(* The target server id of the scoped builds *)

AnythingRegistered ==
  \/ serverInstance.tools # <<>>
  \/ serverInstance.resources # <<>>
  \/ serverInstance.prompts # <<>>

\* the read handler threw at `if (!targetServerId)`
NotConfigured ==
  /\ ReadDone
  /\ call.result.how = "throw"
  /\ call.result.value = "Relay not configured..."

TargetDefinedInState ==
  build # "multi" =>
    /\ AnythingRegistered =>
         (Truthy(targetServerId) /\ targetServerId = configFile.targetServerId)
    /\ ToolInvoked => (Truthy(call.sent[1].serverId)
                        /\ call.sent[1].serverId = configFile.targetServerId)
    /\ ReadInvoked => (call.sent # <<>> /\ ~NotConfigured)

\* once the definition fetch is over nothing assigns targetServerId
TargetKeptInSteps ==
  pc \notin {"start", "config", "fetch_defs"} => targetServerId' = targetServerId

\* C27: in the scoped builds, whenever a tool, resource or prompt is
\* registered the target server id is defined (it is the configured one), no
\* step after the definition fetch changes it, every tool invocation passes a
\* defined id, and no read ends in "Relay not configured".
C27_TargetDefinedWhenRegistered ==
  [](TargetDefinedInState) /\ [][TargetKeptInSteps]_vars

\* a resource of a target without tools is being read
C27_Witness ==
  /\ build = "scoped"
  /\ ReadInvoked
  /\ call.phase = "calling"
  /\ serverInstance.tools = <<>>
  /\ call.sent[1].serverId = Str("srv1")

-----------------------------------------------------------------------------
(* Exceptions while registering *)

PastTools == pc \in {"reg_resources", "reg_prompts", "connect", "serving"}

PastResources == pc \in {"reg_prompts", "connect", "serving"}

PastPrompts == pc \in {"connect", "serving"}

\* the tool whose registration threw is one whose name was registered before
DuplicateToolMet ==
  IF build = "multi"
  THEN generated[Len(generated)].name \in ToolNames(serverInstance)
  ELSE sanitize(serverDefinition.tools[ti].name) \in ToolNames(serverInstance)

RegistrationThrowsInState ==
  call = NoCall =>
    /\ exitCause = "tool_registration" =>
         /\ pc = "exited" /\ exitCode = 1
         /\ ~serverInstance.connected
         /\ serverInstance.resources = <<>> /\ serverInstance.prompts = <<>>
         /\ DuplicateToolMet
    /\ pc = "exited" => exitCause \in FatalCauses
    /\ build # "multi" =>
         /\ PastTools =>
              (Distinct(WantedToolNames) /\ RegisteredToolNames = WantedToolNames)
         /\ PastResources =>
              RegisteredResourceUris = UntilDuplicate(WantedResourceUris, <<>>)
         /\ PastPrompts =>
              RegisteredPromptNames =
                IF Truthy(targetServerId)
                THEN UntilDuplicate(WantedPromptNames, <<>>) ELSE <<>>

RegistrationThrowsInSteps ==
  /\ exitCause' = "tool_registration" => (pc = "exited" \/ pc = "reg_tools")
  /\ pc = "reg_resources" => pc' \in {"reg_resources", "reg_prompts"}
  /\ pc = "reg_prompts" => pc' \in {"reg_prompts", "connect"}

\* C28: a throw while a tool is registered (its name is registered already)
\* ends startup with exit code 1 before the transport is attached; a throw
\* while a resource or a prompt is registered is caught: the entries up to
\* the one that threw stay registered, the rest of that category is left out,
\* and startup goes on to the next category and to the transport.
C28_ToolThrowAbortsOthersCaught ==
  [](RegistrationThrowsInState) /\ [][RegistrationThrowsInSteps]_vars

\* the transport is attached although the second resource and the second
\* prompt could not be registered
C28_Witness ==
  /\ pc = "serving"
  /\ serverInstance.connected
  /\ Len(targetServerResources) = 2 /\ Len(serverInstance.resources) = 1
  /\ Len(serverPrompts) = 2 /\ Len(serverInstance.prompts) = 1

-----------------------------------------------------------------------------
(* A scoped relay without a target *)

\* what main() found at configPath gives no target server id
NoUsableTarget ==
  /\ build # "multi"
  /\ \/ configFile.state \in {"missing", "malformed"}
     \/ /\ configFile.state = "ok"
        /\ configFile.targetServerId
             \in {Undefined, Str(""), Str("YOUR_SERVER_ID_HERE")}

NothingAdvertised ==
  /\ ~serverInstance.capabilities.tools
  /\ ~serverInstance.capabilities.resources
  /\ ~serverInstance.capabilities.prompts

DeliverResponse ==
  /\ pc = "serving"
  /\ call.phase = "done"
  /\ call' = NoCall
  /\ UNCHANGED <<input, output, inflight, build, apiKey, configFile, pc, exitCode, exitCause, userFriendlyMessage, targetServerId, targetServerName,
                 serverDefinition, serverDefinitions, targetServerResources,
                 serverPrompts, serverInstance, si, ti, generated, requests>>

Serving ==
  \/ InvokeTool
  \/ CompleteTool
  \/ InvokeRead
  \/ CompleteRead
  \/ InvokePrompt
  \/ CompletePrompt
  \/ DeliverResponse

-----------------------------------------------------------------------------
(* The sanitizer and the schema translation applied on their own, to every  *)
(* argument of a bounded set rather than to the names a backend of the      *)
(* model returns.                                                            *)

RECURSIVE Join(_)
Join(q) == IF Len(q) = 0 THEN "" ELSE q[1] \o Join(Tail(q))

RawAlphabet == {"a", "Z", "7", "_", "-", " ", "!", "."}

ShortRawNames == {Join(q) : q \in SeqsUpTo(RawAlphabet, MaxRawLen)}

\* raw names whose length is around the 64-character cut
LongRawNames == {Rep("n", MaxIdLen - 2) \o t : t \in ShortRawNames}

RawNames == ShortRawNames \cup LongRawNames

\* main() is not running while a function is applied on its own
MainUntouched ==
  UNCHANGED <<inflight, build, apiKey, configFile, pc, exitCode, exitCause, userFriendlyMessage,
              startupState>>

SanitizeInit ==
  /\ build = "scoped"
  /\ Declared
  /\ input \in {Str(name) : name \in RawNames}
  /\ output = Null

\* const finalRegisteredName = sanitize(toolDef.name)
ApplySanitize ==
  /\ output = Null
  /\ output' = Str(sanitize(input.v))
  /\ UNCHANGED input
  /\ MainUntouched

SanitizeSpec == SanitizeInit /\ [][ApplySanitize]_vars

CharAt(s, i) == SubSeq(s, i, i)

\* C12: sanitize(name) has the length of name, at most 64; at each of its
\* positions it has the character of name at that position when that is a
\* letter, a digit, "_" or "-", and "_" otherwise.
C12_SanitizeCharacterwise ==
  output # Null =>
    LET name == input.v
        r == output.v
    IN /\ Len(r) = Min(Len(name), MaxIdLen)
       /\ \A i \in 1..Len(r) :
            /\ CharAt(r, i) \in LegalChars
            /\ CharAt(r, i) = IF CharAt(name, i) \in LegalChars
                               THEN CharAt(name, i) ELSE "_"

C12_Witness ==
  /\ input = Str(Rep("n", MaxIdLen - 2) \o " a!")
  /\ output = Str(Rep("n", MaxIdLen - 2) \o "_a")

\* parameter definitions the backend can list for a tool
ParamPool ==
  {DbToolParameter(n.name, n.description, type, required) :
     n \in {[name |-> "city", description |-> Str("City name")],
            [name |-> "Unit Of Measure", description |-> Null]},
     type \in {Str("string"), Str("String"), Str("number"), Str("boolean"),
               Str("BOOLEAN"), Str("unrecognized-type"), Undefined},
     required \in {Bool(TRUE), Bool(FALSE), Undefined}}

\* toolDef.parameters: an array of definitions, or no array at all
ParameterInputs ==
  {Null} \cup {[t |-> "array", items |-> q] : q \in SeqsUpTo(ParamPool, MaxParams)}

SchemaInit ==
  /\ build = "scoped"
  /\ Declared
  /\ input \in ParameterInputs
  /\ output = Null

\* the block that fills `parameters` for one tool; it throws nothing
ApplySchemaTranslation ==
  /\ output = Null
  /\ output' = Returned(parameters(input))
  /\ UNCHANGED input
  /\ MainUntouched

SchemaSpec == SchemaInit /\ [][ApplySchemaTranslation]_vars

\* the definitions of the translated array, none when there is no array
Listed == IF input.t = "array" THEN input.items ELSE <<>>

\* the last definition with the name of the i-th one
LastNamed(i) ==
  Listed[CHOOSE j \in DOMAIN Listed :
           /\ Listed[j].name = Listed[i].name
           /\ \A k \in DOMAIN Listed : Listed[k].name = Listed[i].name => k <= j]

FieldNamed(fields, key) ==
  fields[CHOOSE n \in DOMAIN fields : fields[n].key = key].value

\* C13 as stated: a field per parameter, a constrained schema for exactly the
\* tags "string", "number" and "boolean", optional exactly when required is
\* false.
C13_ExactTagsOneFieldEach ==
  output # Null =>
    /\ output.how = "return"
    /\ Len(output.value) = Len(Listed)
    /\ \A i \in DOMAIN Listed :
         LET f == FieldNamed(output.value, Listed[i].name)
         IN /\ f.kind = (IF Listed[i].type \in {Str("string"), Str("number"), Str("boolean")}
                         THEN Listed[i].type.v ELSE "any")
            /\ f.optional = (Listed[i].required = Bool(FALSE))

\* C13: the translation raises no error and yields one field per distinct
\* parameter name, keyed by that name as given and built from the last
\* definition carrying it: the string, number or boolean schema when the type
\* tag is "string", "number" or "boolean" in any letter case, the
\* accept-anything schema for any other or missing tag; the field is optional
\* exactly when required is false or missing.
C13_TagsIgnoringCase ==
  output # Null =>
    /\ output.how = "return"
    /\ {output.value[n].key : n \in DOMAIN output.value}
         = {Listed[i].name : i \in DOMAIN Listed}
    /\ Distinct([n \in DOMAIN output.value |-> output.value[n].key])
    /\ \A i \in DOMAIN Listed :
         LET f == FieldNamed(output.value, Listed[i].name)
             p == LastNamed(i)
         IN /\ f.kind = (CASE p.type \in {Str("string"), Str("String")} -> "string"
                           [] p.type = Str("number") -> "number"
                           [] p.type \in {Str("boolean"), Str("BOOLEAN")} -> "boolean"
                           [] OTHER -> "any")
            /\ f.optional = (p.required # Bool(TRUE))

C13_Witness ==
  /\ input = [t |-> "array",
              items |-> <<DbToolParameter("Unit Of Measure", Null, Str("String"), Undefined),
                          DbToolParameter("city", Str("City name"),
                                          Str("unrecognized-type"), Bool(TRUE))>>]
  /\ output = Returned(<<[key |-> "Unit Of Measure",
                          value |-> ZodSchema("string", Undefined, TRUE)],
                         [key |-> "city",
                          value |-> ZodSchema("any", Str("City name"), FALSE)]>>)

-----------------------------------------------------------------------------
(* Invocations in progress together.  Node runs one handler at a time up to *)
(* its next await, so handlers of different invocations interleave at their *)
(* awaits: each slot of inflight is one invocation, and a step is one       *)
(* handler running from one await to the next.  Startup is main() against a *)
(* backend that answers every discovery request.                            *)

\* the definitions the answering backend holds
TwoTools ==
  <<[name |-> "Get Weather", slug |-> "get-weather", parameters |-> WeatherParameters],
    [name |-> LongNameB, slug |-> "long-b", parameters |-> NoParameters]>>

AnsweringBackend ==
  /\ pc # "exited"
  /\ pc # "start" => apiKey = ValidApiKey
  /\ configFile \in {NotRead, [state |-> "ok", targetServerId |-> Str("srv1")]}
  /\ \A i \in DOMAIN requests : requests[i].ok
  /\ serverDefinition \in {Null, [id |-> "srv1", name |-> "Weather", tools |-> TwoTools]}
  /\ serverDefinitions \in
       {<<>>, <<[id |-> "srv1", name |-> "One",
                 tools |-> PingAnd(<<TwoTools[1]>>)],
                [id |-> "srv2", name |-> "Two", tools |-> PingOnly]>>}
  /\ targetServerResources \in {<<>>, <<[name |-> "logo", uri |-> "file:///logo.png"]>>}
  /\ serverPrompts \in
       {<<>>, <<[name |-> "Vapi Campaign Creator",
                 description |-> "Creates a campaign"]>>}

\* the payloads of the prompt requests that overlap
OverlappingPromptArgs == {X1, Obj(<<P("params", Obj(<<P("arguments", X1)>>))>>)}

\* how the remote calls that overlap settle: one success and two failures of
\* each kind of call
OverlappingExecuteOutcomes ==
  {o \in ExecuteOutcomes :
     \/ o.kind \in {"no_response", "setup_error"}
     \/ o.kind = "ok" /\ o.body = ExecuteBody(Str("X"), Bool(FALSE))}

OverlappingReadOutcomes ==
  {o \in ReadOutcomes :
     \/ o.kind \in {"network_error", "stack_overflow"}
     \/ o.kind = "ok" /\ o.body # Null /\ o.body.contents # <<>>}

OverlappingPromptOutcomes ==
  {o \in PromptOutcomes :
     \/ o.kind = "http_error"
     \/ o.kind = "ok" /\ (o.body = Null \/ o.body = Arr(<<Message("raw")>>))}

\* the handler registered for `binding` from its call to its await
StartedTool(binding, params) ==
  [phase |-> "calling", kind |-> "tool", name |-> binding.name,
   received |-> params,
   sent |-> <<[method |-> "POST", path |-> "execute",
               serverId |-> HandlerServerId(binding),
               key |-> binding.slug, body |-> params,
               timeout |-> ExecuteTimeoutMs]>>,
   outcome |-> Null, result |-> Null]

\* the read handler from its call to its await, or to its throw
StartedRead(uri) ==
  IF ~Truthy(targetServerId)
  THEN [phase |-> "done", kind |-> "resource", name |-> Href(uri),
        received |-> Str(uri), sent |-> <<>>, outcome |-> Null,
        result |-> Thrown("Relay not configured...")]
  ELSE [phase |-> "calling", kind |-> "resource", name |-> Href(uri),
        received |-> Str(uri), sent |-> <<ReadRequest(Href(uri))>>,
        outcome |-> Null, result |-> Null]

\* the prompt handler from its call to its await
StartedPrompt(promptDef, args) ==
  [phase |-> "calling", kind |-> "prompt", name |-> promptDef.name,
   received |-> args, sent |-> <<PromptRequest(promptDef, args)>>,
   outcome |-> Null, result |-> Null]

\* a handler from the settling of its remote call to its return or throw: it
\* works on what it was called with and on what came back
Settled(c, outcome) ==
  [c EXCEPT !.phase = "done", !.outcome = outcome,
            !.result = CASE c.kind = "tool" -> forwardToolCall(c.sent[1].key, outcome)
                         [] c.kind = "resource" -> ReadResult(c.name, outcome)
                         [] OTHER ->
                              IF build = "debug"
                              THEN DebugPromptResult(PromptNamed(c.name), outcome)
                              ELSE PlainPromptResult(outcome)]

\* what the handlers of one slot leave alone
OthersUntouched ==
  UNCHANGED <<input, output, build, apiKey, configFile, pc, exitCode, exitCause,
              userFriendlyMessage, startupState>>

InvokeToolIn(s) ==
  /\ pc = "serving"
  /\ inflight[s].phase = "idle"
  /\ \E i \in DOMAIN serverInstance.tools, params \in ParameterMaps :
       inflight' = [inflight EXCEPT ![s] = StartedTool(serverInstance.tools[i], params)]
  /\ OthersUntouched

\* a tool handler that keeps the slug of the running call in one place for all
\* invocations: the call started last overwrites it
CompleteToolIn_SharedSlug(s) ==
  /\ pc = "serving"
  /\ inflight[s].phase = "calling"
  /\ inflight[s].kind = "tool"
  /\ \E outcome \in OverlappingExecuteOutcomes, t \in Slots :
       /\ inflight[t].kind = "tool"
       /\ inflight' = [inflight EXCEPT ![s] =
            [Settled(inflight[s], outcome) EXCEPT
               !.result = forwardToolCall(inflight[t].sent[1].key, outcome)]]
  /\ OthersUntouched

CompleteToolIn(s) ==
  /\ pc = "serving"
  /\ inflight[s].phase = "calling"
  /\ inflight[s].kind = "tool"
  /\ \E outcome \in OverlappingExecuteOutcomes :
       inflight' = [inflight EXCEPT ![s] = Settled(inflight[s], outcome)]
  /\ OthersUntouched

InvokeReadIn(s) ==
  /\ pc = "serving"
  /\ inflight[s].phase = "idle"
  /\ \E uri \in ClientUris :
       /\ Href(uri) \in ResourceUris(serverInstance)
       /\ inflight' = [inflight EXCEPT ![s] = StartedRead(uri)]
  /\ OthersUntouched

CompleteReadIn(s) ==
  /\ pc = "serving"
  /\ inflight[s].phase = "calling"
  /\ inflight[s].kind = "resource"
  /\ \E outcome \in OverlappingReadOutcomes :
       inflight' = [inflight EXCEPT ![s] = Settled(inflight[s], outcome)]
  /\ OthersUntouched

InvokePromptIn(s) ==
  /\ pc = "serving"
  /\ inflight[s].phase = "idle"
  /\ \E i \in DOMAIN serverInstance.prompts, args \in OverlappingPromptArgs :
       inflight' = [inflight EXCEPT ![s] = StartedPrompt(serverInstance.prompts[i], args)]
  /\ OthersUntouched

CompletePromptIn(s) ==
  /\ pc = "serving"
  /\ inflight[s].phase = "calling"
  /\ inflight[s].kind = "prompt"
  /\ \E outcome \in OverlappingPromptOutcomes :
       inflight' = [inflight EXCEPT ![s] = Settled(inflight[s], outcome)]
  /\ OthersUntouched

DeliverResponseIn(s) ==
  /\ pc = "serving"
  /\ inflight[s].phase = "done"
  /\ inflight' = [inflight EXCEPT ![s] = NoCall]
  /\ OthersUntouched

StartupAnswered == Startup /\ AnsweringBackend'

Overlapped ==
  \E s \in Slots :
    \/ InvokeToolIn(s)
    \/ CompleteToolIn(s)
    \/ InvokeReadIn(s)
    \/ CompleteReadIn(s)
    \/ InvokePromptIn(s)
    \/ CompletePromptIn(s)
    \/ DeliverResponseIn(s)

OverlapNext == StartupAnswered \/ Overlapped

OverlapSpec == Init /\ [][OverlapNext]_vars

\* what the handler of invocation c does when no other invocation is in
\* progress: it starts from what the client passed and, once its own remote
\* call has settled, finishes on that outcome
Alone(c) ==
  LET started ==
        CASE c.kind = "tool" -> StartedTool(BindingNamed(c.name), c.received)
          [] c.kind = "resource" -> StartedRead(c.received.v)
          [] OTHER -> StartedPrompt(PromptNamed(c.name), c.received)
  IN IF c.phase = "done" /\ c.outcome # Null
     THEN Settled(started, c.outcome)
     ELSE started

Busy(s) == inflight[s] # NoCall

NoInterferenceInState ==
  \A s \in Slots : Busy(s) => inflight[s] = Alone(inflight[s])

NoInterferenceInSteps ==
  pc = "serving" =>
    /\ \E s \in Slots : \A t \in Slots \ {s} : inflight'[t] = inflight[t]
    /\ UNCHANGED <<build, apiKey, configFile, pc, exitCode, exitCause,
                   userFriendlyMessage, startupState>>

\* C24: with invocations in progress together, in every interleaving of
\* their steps each invocation's request and outcome are what its handler
\* produces on its own from its input and its own remote response, and a step
\* of one invocation changes neither another invocation nor the registered
\* capabilities nor any variable of main().
C24_NoInterference == [](NoInterferenceInState) /\ [][NoInterferenceInSteps]_vars

\* a tool call failed and finished while a call of the other tool, started
\* before it finished, is still waiting for its response
C24_Witness ==
  /\ inflight[1].kind = "tool" /\ inflight[1].phase = "done"
  /\ inflight[1].outcome.kind = "no_response"
  /\ inflight[2].kind = "tool" /\ inflight[2].phase = "calling"
  /\ inflight[1].sent[1].key # inflight[2].sent[1].key

-----------------------------------------------------------------------------
(* The tool registration loop run a second time in one process, over the    *)
(* same definitions and a new McpServer (on the McpServer of the first run  *)
(* the SDK refuses every name as already registered).                       *)

\* the tool loop has run to its end
ToolLoopOver ==
  /\ pc = "reg_tools"
  /\ IF build = "multi"
     THEN si > Len(serverDefinitions)
     ELSE IF HasTools THEN ti > Len(serverDefinition.tools) ELSE TRUE

\* the identifiers of the first run are kept, and the loop starts again
RegisterAgain ==
  /\ ToolLoopOver
  /\ output = Null
  /\ output' = Returned(RegisteredToolNames)
  /\ serverInstance' = [serverInstance EXCEPT !.tools = <<>>]
  /\ si' = 1
  /\ ti' = 1
  /\ UNCHANGED <<input, inflight, build, apiKey, configFile, pc, exitCode,
                 exitCause, userFriendlyMessage, targetServerId, targetServerName,
                 serverDefinition, serverDefinitions, targetServerResources,
                 serverPrompts, generated, requests, call>>

RepeatNext == Startup \/ RegisterAgain

RepeatSpec == Init /\ [][RepeatNext]_vars

SecondRun == output # Null

-----------------------------------------------------------------------------
(* The argument normalisation of the debug build's prompt handler applied   *)
(* on its own.                                                               *)

WrapperText == "{\"params\":{\"arguments\":{\"x\":1}}}"

\* texts a client can send as the payload, or as the wrapped arguments
PayloadTexts == {"{\"x\":1}", "not json", "", "null", "5", "0", "\"\"", WrapperText}

\* payloads that are not a params wrapper
PlainPayloads ==
  {Undefined, Null, X1, Obj(<<>>), Num(0), Num(5), Bool(FALSE), Arr(<<>>)}
  \cup {Str(t) : t \in PayloadTexts}

\* the values a payload has under the key params
ParamsValues ==
  {Obj(<<>>), Arr(<<>>), Str("p"), Null, Num(0)}
  \cup {Obj(<<P("arguments", a)>>) : a \in PlainPayloads}

ArgumentPayloads ==
  PlainPayloads
  \cup {Obj(<<P("params", p)>>) : p \in ParamsValues}
  \cup {Obj(<<P("params", p), P("x", Num(1))>>) : p \in ParamsValues}

ArgumentsInit ==
  /\ build = "debug"
  /\ Declared
  /\ input \in ArgumentPayloads
  /\ output = Null

\* promptHandler from its entry to `arguments: args || {}`
ApplyNormalization ==
  /\ output = Null
  /\ output' = Returned(NormalizedArguments(input))
  /\ UNCHANGED input
  /\ MainUntouched

ArgumentsSpec == ArgumentsInit /\ [][ApplyNormalization]_vars

\* typeof v === "object" for a truthy v
IsObjectLike(v) == v.t \in {"object", "array"}

\* the payload has an object under params
HasParamsObject(v) == v.t = "object" /\ IsObjectLike(Prop(v, "params"))

WrappedArguments(v) == Prop(Prop(v, "params"), "arguments")

ParsesTo(v, w) == v.t = "string" /\ JSONParse(v.v).ok /\ JSONParse(v.v).value = w

Unparsable(v) == v.t = "string" /\ ~JSONParse(v.v).ok

\* C29: the debug build's prompt handler unwraps before it parses.  A payload
\* with an object under params becomes params.arguments, or {} when that is
\* absent or falsy, and its other keys are dropped; a wrapped JSON text is
\* parsed after it was unwrapped; a payload that is JSON text becomes the
\* parsed value, which is not unwrapped again and may be a non-object; a text
\* that is not JSON stays as it is; whatever is falsy in the end becomes {}.
C29_UnwrapThenParse ==
  output # Null =>
    LET args == input
        sent == output.value
        inner == WrappedArguments(args)
    IN /\ output.how = "return"
       /\ Truthy(sent)
       /\ (HasParamsObject(args) /\ ~Truthy(inner)) => sent = Obj(<<>>)
       /\ (HasParamsObject(args) /\ Truthy(inner) /\ inner.t # "string") => sent = inner
       /\ (HasParamsObject(args) /\ ParsesTo(inner, X1)) => sent = X1
       /\ (HasParamsObject(args) /\ Unparsable(inner) /\ inner.v # "") => sent = inner
       /\ args = Str(WrapperText) =>
            sent = Obj(<<P("params", Obj(<<P("arguments", X1)>>))>>)
       /\ ParsesTo(args, Num(5)) => sent = Num(5)
       /\ (Unparsable(args) /\ args.v # "") => sent = args
       /\ (~HasParamsObject(args) /\ Truthy(args) /\ args.t # "string") => sent = args
       /\ (~Truthy(args) \/ ParsesTo(args, Null) \/ ParsesTo(args, Num(0))
             \/ ParsesTo(args, Str(""))) => sent = Obj(<<>>)

\* a JSON text that holds a params wrapper was parsed and not unwrapped
C29_Witness ==
  /\ input = Str(WrapperText)
  /\ output = Returned(Obj(<<P("params", Obj(<<P("arguments", X1)>>))>>))

Next == Startup \/ Serving

Spec == Init /\ [][Next]_vars

-----------------------------------------------------------------------------
(* Progress.  axios rejects a request that carries `timeout` once that time *)
(* has passed without a response, so the await of such a request always     *)
(* ends; a request without one waits for as long as the backend is silent.  *)

BoundedCallSettles ==
  /\ call.phase = "calling"
  /\ call.sent[1].timeout > 0
  /\ (CompleteTool \/ CompleteRead \/ CompletePrompt)

LiveSpec == Init /\ [][Next]_vars /\ WF_vars(BoundedCallSettles)

ToolCalling == call.kind = "tool" /\ call.phase = "calling"

\* Done (an envelope without the error flag) or Failed (one with it)
OneEnvelope ==
  /\ ToolDone
  /\ call.result.how = "return"
  /\ Len(call.result.value.content) = 1
  /\ call.result.value.isError \in {Bool(TRUE), Bool(FALSE)}

TimeoutsInState ==
  /\ call.phase = "calling" =>
       /\ Len(call.sent) = 1
       /\ call.sent[1].timeout = (IF call.kind = "tool" THEN ExecuteTimeoutMs ELSE 0)
  /\ ToolDone => (OneEnvelope /\ call.outcome # Null)
  /\ ((ReadDone \/ PromptDone) /\ call.sent # <<>>) => call.outcome # Null

\* C26: a tool invocation that is waiting for its remote call always ends
\* with one envelope, Done or Failed, because its request carries the 30 s
\* timeout; a read or prompt request carries none, and such an invocation is
\* finished only once its remote call has settled.
C26_ToolCallsEnd == [](TimeoutsInState) /\ (ToolCalling ~> OneEnvelope)

\* a tool invocation ended Failed because no response came in time
C26_Witness ==
  /\ OneEnvelope
  /\ call.outcome.kind = "no_response"
  /\ call.sent[1].timeout = ExecuteTimeoutMs
  /\ call.result.value.isError = Bool(TRUE)

====
